---- MODULE Spec2Model ----
(***************************************************************************)
(* Model of the MVRP refinement controller (src/src/index.js) with its     *)
(* collaborators: the load analyzer, the constraint checker, the solution  *)
(* parser, the strategy generator and the input mutator.                   *)
(*                                                                         *)
(* Conventions:                                                            *)
(*  - a JavaScript null/undefined object reference is the record Null;     *)
(*  - a property read that may be undefined is a record [def, val]         *)
(*    (JsGet), compared with JavaScript's rules (JsGT, JsLT, JsStrictEq);  *)
(*  - a percentage such as complianceRate is the exact fraction            *)
(*    [num, den]; the comparisons cross-multiply;                          *)
(*  - a vehicle id is a numeral string, held as its sequence of digits;    *)
(*  - load_balance_weight is held in tenths (7 for 0.7);                   *)
(*  - an operation that throws yields Null;                                *)
(*  - a step's load is the amount load[0].                                 *)
(***************************************************************************)
EXTENDS Integers, Sequences, FiniteSets, TLC

(* ------------------------------ bounds --------------------------------- *)

\* options.maxIterations of the modelled run
MaxIterations == 3

\* largest number of routes in a solution the Oracle returns
MaxRoutes == 2

\* routes of a solution handed to the analyzer on its own
MaxAnalyzedRoutes == 3

\* largest iteration index handed to the generators on their own
MaxIndex == 5

\* largest configured number of attempts of a submission
MaxRetriesConfigured == 3

\* params.numberOfIterations of the modelled client run
MaxClientIterations == 2

\* status polls after which the modelled Oracle has stopped processing
MaxPolls == 2

\* routes of the large solution handed to the analyzer: enough of a load gap
\* for both generators to ask for more than MaxAddedVehicles vehicles
ManyRoutes == 14

(* ------------------------- program constants --------------------------- *)

\* options.minLoad, the target minimum load per route
minLoad == 12000

\* the capacity createLoadBalancingStrategy sizes a vehicle addition by
referenceCapacity == 12000

\* the capacity createRelaxedLoadBalancingStrategy sizes it by
relaxedReferenceCapacity == 8000

\* the largest vehicle addition either generator asks for
MaxAddedVehicles == 15

\* ROIRIntegration: least time between two passes of the rate gate, the
\* first backoff delay, the time between two status polls and the longest
\* wait for a result, in ms
minCallInterval == 1000

retryDelayMs == 1000

checkInterval == 10000

maxWaitTime == 600000

\* the two route loads the modelled Oracle can produce: below and above target
LowLoad == 9000

HighLoad == 14000

\* default time window of added vehicles and of the modelled instance
TwStart == 1719282600

TwEnd == 1719315000

\* cap of max_visit_lateness in seconds
LatenessCap == 1800

\* a constraint field that has not been set
Unset == -1

\* default of the targetMinLoad parameter of modifyForLoadBalancing
DefaultTargetMinLoad == 8000

\* default of load_balance_weight, in tenths
DefaultWeight == 5

\* loadTargets of the page's default parameters
DefaultLoadTargets == 12000

(* --------------------------- JavaScript values ------------------------- *)

Null == [isNull |-> TRUE]

JsGet(obj, f) ==
  IF f \in DOMAIN obj THEN [def |-> TRUE, val |-> obj[f]]
                      ELSE [def |-> FALSE, val |-> 0]

\* a > b, false when either side is undefined (NaN)
JsGT(a, b) == a.def /\ b.def /\ a.val > b.val

\* a < b, false when either side is undefined (NaN)
JsLT(a, b) == a.def /\ b.def /\ a.val < b.val

\* a === b
JsStrictEq(a, b) == (a.def = b.def) /\ (a.def => a.val = b.val)

Num(n) == [def |-> TRUE, val |-> n]

\* a || b on numbers: 0 is falsy
JsOr(a, b) == IF a = 0 THEN b ELSE a

\* parseInt of a numeral string
RECURSIVE parseInt(_)
parseInt(digits) ==
  IF Len(digits) = 1 THEN digits[1]
  ELSE 10 * parseInt(SubSeq(digits, 1, Len(digits) - 1)) + digits[Len(digits)]

\* Number.prototype.toString of a non-negative integer
RECURSIVE toString(_)
toString(n) == IF n < 10 THEN << n >> ELSE toString(n \div 10) \o << n % 10 >>

(* ------------------------------ fractions ------------------------------ *)

Frac(n, d) == [num |-> n, den |-> d]

FracLT(a, b) == a.num * b.den < b.num * a.den

FracGT(a, b) == FracLT(b, a)

FracEq(a, b) == a.num * b.den = b.num * a.den

CeilDiv_Floor(a, b) == a \div b

\* Math.ceil(a / b) for integers a >= 0, b > 0
CeilDiv(a, b) == (a + b - 1) \div b

Min(a, b) == IF a < b THEN a ELSE b

RECURSIVE SeqMax(_)
SeqMax(s) ==
  IF Len(s) = 1 THEN s[1]
  ELSE LET m == SeqMax(Tail(s)) IN IF s[1] > m THEN s[1] ELSE m

RECURSIVE SeqSum(_)
SeqSum(s) == IF s = <<>> THEN 0 ELSE s[1] + SeqSum(Tail(s))

(* --------------------------- LoadAnalyzer ------------------------------ *)

\* sum of load[0] over the steps of type "job"
calculateRouteLoad_AllSteps(route) ==
  SeqSum([i \in 1..Len(route.steps) |->
            IF "load" \in DOMAIN route.steps[i] THEN route.steps[i].load ELSE 0])

\* a job step without a load counts 0 (step.load ? step.load[0] : 0)
calculateRouteLoad(route) ==
  LET jobSteps == SelectSeq(route.steps, LAMBDA step : step.type = "job")
  IN SeqSum([i \in 1..Len(jobSteps) |->
               IF "load" \in DOMAIN jobSteps[i] THEN jobSteps[i].load ELSE 0])

calculateLoadSummary(analysis, targetMinLoad) ==
  LET totalLoadGap == SeqSum([i \in 1..Len(analysis.loadGaps) |-> analysis.loadGaps[i].gap])
      routesBelowCount == Len(analysis.routesBelowTarget)
      routesAboveCount == Len(analysis.routesAboveTarget)
      totalRoutes == routesBelowCount + routesAboveCount
      all == analysis.routesBelowTarget \o analysis.routesAboveTarget
  IN [ totalLoadGap |-> totalLoadGap,
       routesBelowCount |-> routesBelowCount,
       routesAboveCount |-> routesAboveCount,
       totalRoutes |-> totalRoutes,
       totalJobsAssigned |->
         SeqSum([i \in 1..Len(all) |->
                   Len(SelectSeq(all[i].steps, LAMBDA step : step.type = "job"))]),
       complianceRate |->
         IF totalRoutes > 0 THEN Frac(routesAboveCount * 100, totalRoutes)
                            ELSE Frac(0, 1),
       targetMinLoad |-> targetMinLoad ]

analyzeLoadDistribution(solution, targetMinLoad) ==
  LET below == SelectSeq(solution.routes,
                         LAMBDA route : calculateRouteLoad(route) < targetMinLoad)
      above == SelectSeq(solution.routes,
                         LAMBDA route : calculateRouteLoad(route) >= targetMinLoad)
      gaps == [i \in 1..Len(below) |->
                 [ vehicleId |-> below[i].vehicle,
                   currentLoad |-> calculateRouteLoad(below[i]),
                   targetLoad |-> targetMinLoad,
                   gap |-> targetMinLoad - calculateRouteLoad(below[i]) ]]
      partial == [ targetMinLoad |-> targetMinLoad,
                   routesBelowTarget |-> below,
                   routesAboveTarget |-> above,
                   loadGaps |-> gaps ]
  IN [ targetMinLoad |-> targetMinLoad,
       routesBelowTarget |-> below,
       routesAboveTarget |-> above,
       loadGaps |-> gaps,
       summary |-> calculateLoadSummary(partial, targetMinLoad) ]

(* -------------------------- ConstraintChecker -------------------------- *)

\* the largest power of two that is not above n, for n >= 1
RECURSIVE PowerOfTwoBelow(_)
PowerOfTwoBelow(n) == IF n < 2 THEN 1 ELSE 2 * PowerOfTwoBelow(n \div 2)

\* x < t * 1.1 as JavaScript evaluates it for integers x and t > 0, in IEEE
\* double arithmetic: the literal 1.1 is the double 1.1 + 1/(5 * 2^51), so the
\* product is 11 t / 10 + t / (5 * 2^51) before it is rounded to 53 bits. An
\* integer x other than 11 t / 10 is at least 1/10 away, the comparison is the
\* exact one. When x = 11 t / 10 the product rounds to the next double above
\* x, and x < t * 1.1 holds, when the excess is more than half the spacing of
\* the doubles at x: t / (5 * 2^51) > 2^(e - 53) with 2^e the largest power of
\* two not above x, that is 4 t > 5 * 2^e (12000 * 1.1 = 13200.000000000002).
LessThanTimes1_1(x, t) ==
  \/ 10 * x < 11 * t
  \/ (10 * x = 11 * t /\ 4 * t > 5 * PowerOfTwoBelow(x))

\* the routes below minLoad, and those at or above it but below minLoad * 1.1
checkMinLoadConstraint(solution, minLoadBound) ==
  [ violations |->
      SelectSeq(solution.routes,
                LAMBDA route : calculateRouteLoad(route) < minLoadBound),
    warnings |->
      SelectSeq(solution.routes,
                LAMBDA route : /\ ~ (calculateRouteLoad(route) < minLoadBound)
                               /\ LessThanTimes1_1(calculateRouteLoad(route),
                                                   minLoadBound)) ]

\* the routes over maxLoad, and those within it but over 90 % of it
checkMaxLoadConstraint(solution, maxLoad) ==
  [ violations |->
      SelectSeq(solution.routes,
                LAMBDA route : calculateRouteLoad(route) > maxLoad),
    warnings |->
      SelectSeq(solution.routes,
                LAMBDA route : /\ ~ (calculateRouteLoad(route) > maxLoad)
                               /\ calculateRouteLoad(route) * 10 > maxLoad * 9) ]

\* one violation when there are more routes than maxRoutes, one warning when
\* there are more than 90 % of maxRoutes
checkMaxRoutesConstraint(solution, maxRoutes) ==
  LET routeCount == Len(solution.routes)
  IN [ violations |->
         IF routeCount > maxRoutes
         THEN << [type |-> "max_routes_violation", severity |-> "high"] >>
         ELSE << >>,
       warnings |->
         IF ~ (routeCount > maxRoutes) /\ routeCount * 10 > maxRoutes * 9
         THEN << [type |-> "max_routes_warning", severity |-> "medium"] >>
         ELSE << >> ]

\* a constraint is requested when the constraints object carries it with a
\* truthy value (if (constraints.minLoadPerRoute) ...)
Requested(constraints, name) ==
  name \in DOMAIN constraints /\ constraints[name] # 0

\* the violations or warnings ("violations", "warnings") of the routes a
\* per-route check returned, as the records the checker pushes
Issues(check, kind, type, severity) ==
  [i \in 1..Len(check[kind]) |->
     [ type |-> type, severity |-> severity, vehicleId |-> check[kind][i].vehicle ]]

checkSolutionConstraints_NoEmptyCheck(solution, constraints) ==
  LET none == [violations |-> << >>, warnings |-> << >>]
      loadCheck ==
        IF Requested(constraints, "minLoadPerRoute")
        THEN checkMinLoadConstraint(solution, constraints.minLoadPerRoute)
        ELSE none
      maxLoadCheck ==
        IF Requested(constraints, "maxLoadPerRoute")
        THEN checkMaxLoadConstraint(solution, constraints.maxLoadPerRoute)
        ELSE none
      routeCheck ==
        IF Requested(constraints, "maxRoutes")
        THEN checkMaxRoutesConstraint(solution, constraints.maxRoutes)
        ELSE none
      violations ==
        Issues(loadCheck, "violations", "min_load_violation", "high")
          \o Issues(maxLoadCheck, "violations", "max_load_violation", "high")
          \o routeCheck.violations
      warnings ==
        Issues(loadCheck, "warnings", "min_load_warning", "medium")
          \o Issues(maxLoadCheck, "warnings", "max_load_warning", "medium")
          \o routeCheck.warnings
  IN [ passed |-> (Len(violations) = 0),
       violations |-> violations,
       warnings |-> warnings ]

\* a solution without routes is answered before any constraint is looked at;
\* the routes carry no summary, so maxDistance and maxDuration, which read
\* route.summary, find distance and duration 0 and add nothing
checkSolutionConstraints(solution, constraints) ==
  IF Len(solution.routes) = 0
  THEN [ passed |-> FALSE,
         violations |-> << [type |-> "no_routes_violation", severity |-> "critical"] >>,
         warnings |-> << >> ]
  ELSE LET none == [violations |-> << >>, warnings |-> << >>]
           loadCheck ==
             IF Requested(constraints, "minLoadPerRoute")
             THEN checkMinLoadConstraint(solution, constraints.minLoadPerRoute)
             ELSE none
           maxLoadCheck ==
             IF Requested(constraints, "maxLoadPerRoute")
             THEN checkMaxLoadConstraint(solution, constraints.maxLoadPerRoute)
             ELSE none
           routeCheck ==
             IF Requested(constraints, "maxRoutes")
             THEN checkMaxRoutesConstraint(solution, constraints.maxRoutes)
             ELSE none
           violations ==
             Issues(loadCheck, "violations", "min_load_violation", "high")
               \o Issues(maxLoadCheck, "violations", "max_load_violation", "high")
               \o routeCheck.violations
           warnings ==
             Issues(loadCheck, "warnings", "min_load_warning", "medium")
               \o Issues(maxLoadCheck, "warnings", "max_load_warning", "medium")
               \o routeCheck.warnings
       IN [ passed |-> (Len(violations) = 0),
            violations |-> violations,
            warnings |-> warnings ]

(* ---------------------------- SolutionParser --------------------------- *)

\* the parsed wrapper {data, analysis}; data carries the routes
SolutionParser_parse(solutionData) ==
  [ data |-> [routes |-> solutionData.routes, unassigned |-> solutionData.unassigned],
    analysis |-> [routeCount |-> Len(solutionData.routes)] ]

(* ----------------------------- InputModifier --------------------------- *)

\* objective descriptors written by modifyObjective
ObjectiveOf(name) ==
  IF name = "minimize_duration"
  THEN [travel_cost |-> "duration", custom |-> "none"]
  ELSE IF name = "maximize_load_balance"
  THEN [travel_cost |-> "distance", custom |-> "min-max-tasks"]
  ELSE [travel_cost |-> "distance", custom |-> "min-vehicles"]

modifyObjective(input, strategy) ==
  IF strategy.objective \in { "minimize_duration", "maximize_load_balance",
                              "minimize_vehicles_with_load_constraint" }
  THEN [input EXCEPT !.options.objective = ObjectiveOf(strategy.objective)]
  ELSE input

addVehicles_CountBased(input, strategy, targetMinLoad) ==
  LET baseVehicleId == Len(input.vehicles) + 1
      added == [i \in 1..strategy.count |->
                  [ id |-> toString(baseVehicleId + (i - 1)),
                    time_window |-> strategy.timeWindow,
                    capacity |-> JsOr(strategy.capacity, targetMinLoad),
                    metadata |-> [ added_for_load_balancing |-> TRUE,
                                   iteration |-> JsOr(strategy.iteration, 1) ] ]]
  IN [input EXCEPT !.vehicles = input.vehicles \o added]

addVehicles(input, strategy, targetMinLoad) ==
  LET baseVehicleId ==
        SeqMax([i \in 1..Len(input.vehicles) |-> parseInt(input.vehicles[i].id)]) + 1
      added == [i \in 1..strategy.count |->
                  [ id |-> toString(baseVehicleId + (i - 1)),
                    time_window |-> strategy.timeWindow,
                    capacity |-> JsOr(strategy.capacity, targetMinLoad),
                    metadata |-> [ added_for_load_balancing |-> TRUE,
                                   iteration |-> JsOr(strategy.iteration, 1) ] ]]
  IN [input EXCEPT !.vehicles = input.vehicles \o added]

relaxTimeWindows(input, strategy) ==
  LET d == strategy.relaxationMinutes * 60
      widen(w) == << w[1] - d, w[2] + d >>
  IN [input EXCEPT
        !.jobs = [j \in 1..Len(input.jobs) |->
                    [input.jobs[j] EXCEPT
                       !.time_windows =
                          [k \in 1..Len(input.jobs[j].time_windows) |->
                             widen(input.jobs[j].time_windows[k])]]],
        !.vehicles = [v \in 1..Len(input.vehicles) |->
                        [input.vehicles[v] EXCEPT
                           !.time_window = widen(input.vehicles[v].time_window)]]]

addTimeWindowSoftening_Uncapped(input, strategy) ==
  LET relaxationSeconds == JsOr(strategy.relaxationMinutes, 60) * 60
  IN [input EXCEPT
        !.options.constraint.max_vehicle_overtime = relaxationSeconds,
        !.options.constraint.max_visit_lateness = relaxationSeconds]

addTimeWindowSoftening_OvertimeOnly(input, strategy) ==
  LET relaxationSeconds == JsOr(strategy.relaxationMinutes, 60) * 60
  IN [input EXCEPT
        !.options.constraint.max_vehicle_overtime = relaxationSeconds]

addTimeWindowSoftening(input, strategy) ==
  LET relaxationSeconds == JsOr(strategy.relaxationMinutes, 60) * 60
  IN [input EXCEPT
        !.options.constraint.max_vehicle_overtime = relaxationSeconds,
        !.options.constraint.max_visit_lateness = Min(relaxationSeconds, LatenessCap)]

\* the mutator with time-window softening; an unknown strategy type throws
modifyForLoadBalancing(input, strategy) ==
  CASE strategy.type = "objective_modification" -> modifyObjective(input, strategy)
    [] strategy.type = "vehicle_addition" ->
         addVehicles(input, strategy, DefaultTargetMinLoad)
    [] strategy.type = "time_window_relaxation" -> relaxTimeWindows(input, strategy)
    [] strategy.type = "time_window_softening" -> addTimeWindowSoftening(input, strategy)
    [] OTHER -> Null

\* the forEach of applyMultipleStrategies; a throw ends it
RECURSIVE applyMultipleStrategies(_, _)
applyMultipleStrategies(input, strategies) ==
  IF strategies = << >> \/ input = Null THEN input
  ELSE applyMultipleStrategies(modifyForLoadBalancing(input, strategies[1]),
                               Tail(strategies))

\* the mutator variant with load constraints (src/unnamed/part_005)
addLoadConstraints(input, strategy, targetMinLoad) ==
  [input EXCEPT
     !.options.constraint.min_load_per_route = targetMinLoad,
     !.options.constraint.load_balance_weight =
        JsOr(strategy.loadBalanceWeight, DefaultWeight)]

\* that variant's modifyForLoadBalancing, for the strategy types both variants
\* treat alike and for constraint_addition; any other type throws
modifyForLoadBalancing_005(input, strategy) ==
  CASE strategy.type = "vehicle_addition" ->
         addVehicles(input, strategy, DefaultTargetMinLoad)
    [] strategy.type = "time_window_relaxation" -> relaxTimeWindows(input, strategy)
    [] strategy.type = "constraint_addition" ->
         addLoadConstraints(input, strategy, DefaultTargetMinLoad)
    [] OTHER -> Null

RECURSIVE applyMultipleStrategies_005(_, _)
applyMultipleStrategies_005(input, strategies) ==
  IF strategies = << >> \/ input = Null THEN input
  ELSE applyMultipleStrategies_005(modifyForLoadBalancing_005(input, strategies[1]),
                                   Tail(strategies))

\* Array.prototype.sort with the priority comparator (stable)
SortByPriority(strategies) ==
  SelectSeq(strategies, LAMBDA s : s.priority = "high")
    \o SelectSeq(strategies, LAMBDA s : s.priority = "medium")
    \o SelectSeq(strategies, LAMBDA s : s.priority = "low")

objectives_Rotated == << "minimize_vehicles_with_load_constraint", "minimize_duration",
                         "maximize_load_balance" >>

objectives == << "maximize_load_balance", "minimize_vehicles_with_load_constraint",
                 "minimize_duration" >>

relaxationMinutes == << 30, 45, 60, 15, 90, 120 >>

capacities_Sorted == << 10000, 12000, 14000, 16000, 18000 >>

capacities == << 14000, 12000, 16000, 10000, 18000 >>

createLoadBalancingStrategy(analysis, iteration, successfulIteration) ==
  LET rate == analysis.summary.complianceRate
      s1 == IF FracLT(rate, Frac(30, 1))
            THEN << [ type |-> "objective_modification",
                      objective |-> objectives[(iteration % Len(objectives)) + 1],
                      priority |-> "high" ] >>
            ELSE IF FracLT(rate, Frac(50, 1))
            THEN << [ type |-> "objective_modification",
                      objective |-> "maximize_load_balance",
                      priority |-> "high" ] >>
            ELSE << >>
      s2 == << [ type |-> "time_window_softening",
                 relaxationMinutes |->
                   relaxationMinutes[(iteration % Len(relaxationMinutes)) + 1],
                 priority |-> "high" ] >>
      neededVehicles == CeilDiv(analysis.summary.totalLoadGap, 12000)
      s3 == IF 2 * Len(analysis.routesBelowTarget) > Len(analysis.routesAboveTarget)
            THEN << [ type |-> "vehicle_addition",
                      count |-> Min(neededVehicles + (iteration % 3), 15),
                      capacity |-> capacities[(iteration % Len(capacities)) + 1],
                      timeWindow |-> << TwStart, TwEnd >>,
                      iteration |-> iteration,
                      priority |-> "medium" ] >>
            ELSE << >>
  IN SortByPriority(s1 \o s2 \o s3)

createRelaxedLoadBalancingStrategy_NormalSizing(analysis, iteration, successfulIteration) ==
  LET neededVehicles == CeilDiv(analysis.summary.totalLoadGap, 12000)
  IN SortByPriority(
       << [ type |-> "time_window_softening",
            relaxationMinutes |-> 120,
            priority |-> "high" ],
          [ type |-> "vehicle_addition",
            count |-> Min(neededVehicles + (iteration % 3), 15),
            capacity |-> 10000,
            timeWindow |-> << TwStart, TwEnd >>,
            iteration |-> iteration,
            priority |-> "high" ],
          [ type |-> "time_window_relaxation",
            relaxationMinutes |-> 60,
            priority |-> "medium" ],
          [ type |-> "objective_modification",
            objective |-> "minimize_vehicles_with_load_constraint",
            priority |-> "medium" ] >>)

createRelaxedLoadBalancingStrategy(analysis, iteration, successfulIteration) ==
  LET neededVehicles == CeilDiv(analysis.summary.totalLoadGap, 8000)
  IN SortByPriority(
       << [ type |-> "time_window_softening",
            relaxationMinutes |-> 120,
            priority |-> "high" ],
          [ type |-> "vehicle_addition",
            count |-> Min(neededVehicles + 5, 15),
            capacity |-> 10000,
            timeWindow |-> << TwStart, TwEnd >>,
            iteration |-> iteration,
            priority |-> "high" ],
          [ type |-> "time_window_relaxation",
            relaxationMinutes |-> 60,
            priority |-> "medium" ],
          [ type |-> "objective_modification",
            objective |-> "minimize_vehicles_with_load_constraint",
            priority |-> "medium" ] >>)

\* the errors validateModifiedInput collects; it throws when there is one
ValidationErrors(input) ==
  { << "capacity", input.vehicles[v].id >> :
      v \in { w \in 1..Len(input.vehicles) : input.vehicles[w].capacity <= 0 } }
  \cup
  { << "vehicle_window", input.vehicles[v].id >> :
      v \in { w \in 1..Len(input.vehicles) :
                input.vehicles[w].time_window[1] >= input.vehicles[w].time_window[2] } }
  \cup
  { << "job_window", input.jobs[j].id >> :
      j \in { k \in 1..Len(input.jobs) :
                \E n \in 1..Len(input.jobs[k].time_windows) :
                   input.jobs[k].time_windows[n][1] >= input.jobs[k].time_windows[n][2] } }

validateModifiedInput_WindowsOnly(input) ==
  \A e \in ValidationErrors(input) : e[1] = "capacity"

validateModifiedInput(input) == ValidationErrors(input) = {}


(* ------------------------- MVRPExplainability -------------------------- *)

\* index.js:165, the goal test at the head of the loop; the analysis object
\* LoadAnalyzer returns has no routeCount property
GoalAchieved(constraintCheck, analysis) ==
  constraintCheck.passed /\ JsGT(JsGet(analysis, "routeCount"), Num(0))

\* variant: an empty route list counts as a successful iteration
IsSuccessfulIteration_AcceptsEmpty(newAnalysis) ==
  newAnalysis.summary.totalRoutes >= 0

\* index.js:196, a normal attempt is successful when it produced routes
IsSuccessfulIteration(newAnalysis) == newAnalysis.summary.totalRoutes > 0

\* variant: the first successful iteration is not a revert target
CanRevert_Always(lastIteration) == lastIteration >= 0

CanRevert_OffByOne(lastIteration) == lastIteration > 1

\* index.js:229, a degenerate result can be recovered from
CanRevert(lastIteration) == lastIteration > 0

\* variant: a relaxed attempt without routes is adopted
RelaxedSucceeded_AcceptsEmpty(relaxedAnalysis) ==
  relaxedAnalysis.summary.totalRoutes >= 0

\* index.js:253, the relaxed attempt is adopted
RelaxedSucceeded(relaxedAnalysis) ==
  JsGT(JsGet(relaxedAnalysis, "routeCount"), Num(0))

\* variant: the compliance comparison is reversed
isBetterSolution_Flipped(newSolution, currentBest) ==
  IF currentBest = Null THEN TRUE
  ELSE LET newAnalysis == analyzeLoadDistribution(newSolution.data, minLoad)
           currentAnalysis == analyzeLoadDistribution(currentBest, minLoad)
       IN FracLT(newAnalysis.summary.complianceRate,
                 currentAnalysis.summary.complianceRate)

\* newSolution is the parsed wrapper, currentBest a solution or Null
isBetterSolution(newSolution, currentBest) ==
  IF currentBest = Null THEN TRUE
  ELSE LET newAnalysis == analyzeLoadDistribution(newSolution.data, minLoad)
           currentAnalysis == analyzeLoadDistribution(currentBest, minLoad)
       IN IF JsStrictEq(JsGet(newAnalysis, "routeCount"), Num(0)) THEN FALSE
          ELSE IF FracGT(newAnalysis.summary.complianceRate,
                         currentAnalysis.summary.complianceRate) THEN TRUE
          ELSE IF FracEq(newAnalysis.summary.complianceRate,
                         currentAnalysis.summary.complianceRate)
               THEN JsLT(JsGet(newAnalysis, "routeCount"),
                         JsGet(currentAnalysis, "routeCount"))
          ELSE FALSE

\* variant: the new solution is taken without the comparison
UpdateBest_Always(newSolution, currentBest) == newSolution.data

UpdateBest_Wrapper(newSolution, currentBest) ==
  IF isBetterSolution(newSolution, currentBest) THEN newSolution
                                                ELSE currentBest

\* index.js:218-221 and 273-276, the guarded update of this.bestSolution
UpdateBest(newSolution, currentBest) ==
  IF isBetterSolution(newSolution, currentBest) THEN newSolution.data
                                                ELSE currentBest

IterationRecord_PreviousIndex(i, analysis, solution, isRelaxed) ==
  [ iteration |-> i - 1,
    analysis |-> analysis,
    constraintCheck |-> checkSolutionConstraints(solution, [minLoadPerRoute |-> minLoad]),
    solution |-> solution,
    relaxed |-> isRelaxed ]

\* the record pushed on this.iterationHistory (the timestamp is left out)
IterationRecord(i, analysis, solution, isRelaxed) ==
  [ iteration |-> i,
    analysis |-> analysis,
    constraintCheck |-> checkSolutionConstraints(solution, [minLoadPerRoute |-> minLoad]),
    solution |-> solution,
    relaxed |-> isRelaxed ]

HistoryRows(history) ==
  [k \in 1..Len(history) |->
     [ iteration |-> history[k].iteration,
       complianceRate |-> history[k].analysis.summary.complianceRate,
       totalRoutes |-> history[k].analysis.summary.totalRoutes,
       constraintsPassed |-> history[k].constraintCheck.passed,
       relaxed |-> history[k].relaxed ]]

generateFinalReport(finalSolution, initialAnalysis, history, attempts, best) ==
  IF finalSolution = Null \/ "routes" \notin DOMAIN finalSolution
  THEN [ summary |->
           [ totalIterations |-> Len(history),
             totalAttempts |-> attempts,
             targetMinLoad |-> minLoad,
             initialComplianceRate |-> initialAnalysis.summary.complianceRate,
             finalComplianceRate |-> Frac(0, 1),
             constraintsMet |-> FALSE,
             bestSolutionFound |-> FALSE ],
         finalAnalysis |-> [complianceRate |-> Frac(0, 1), totalRoutes |-> 0],
         constraintCheck |-> [passed |-> FALSE, violations |-> << >>],
         iterationHistory |-> HistoryRows(history),
         recommendations |-> "no_successful_iterations" ]
  ELSE LET finalAnalysis == analyzeLoadDistribution(finalSolution, minLoad)
           finalConstraintCheck ==
             checkSolutionConstraints(finalSolution, [minLoadPerRoute |-> minLoad])
       IN [ summary |->
              [ totalIterations |-> Len(history),
                totalAttempts |-> attempts,
                targetMinLoad |-> minLoad,
                initialComplianceRate |-> initialAnalysis.summary.complianceRate,
                finalComplianceRate |-> finalAnalysis.summary.complianceRate,
                constraintsMet |-> finalConstraintCheck.passed,
                bestSolutionFound |-> (best # Null) ],
            finalAnalysis |-> [ complianceRate |-> finalAnalysis.summary.complianceRate,
                                totalRoutes |-> finalAnalysis.summary.totalRoutes ],
            constraintCheck |-> [ passed |-> finalConstraintCheck.passed,
                                  violations |-> finalConstraintCheck.violations ],
            iterationHistory |-> HistoryRows(history),
            recommendations |-> "from_constraint_check" ]

(* ------------------------- the modelled inputs ------------------------- *)

\* a vehicle of input.json: no metadata
Vehicle(id, capacity) ==
  [ id |-> id, time_window |-> << TwStart, TwEnd >>, capacity |-> capacity,
    metadata |-> Null ]

Instance(capacity2) ==
  [ vehicles |-> << Vehicle(<< 1 >>, 14000), Vehicle(<< 2 >>, capacity2) >>,
    jobs |-> << [id |-> 1, time_windows |-> << << TwStart, TwEnd >> >>] >>,
    options |-> [ objective |-> [travel_cost |-> "distance", custom |-> "none"],
                  constraint |-> [ min_load_per_route |-> Unset,
                                   load_balance_weight |-> Unset,
                                   max_vehicle_overtime |-> Unset,
                                   max_visit_lateness |-> Unset ] ] ]

\* an instance whose job has a time window that ends before it starts
BadWindowInstance ==
  [Instance(14000) EXCEPT !.jobs[1].time_windows[1] = << TwEnd, TwStart >>]

\* input.json: a valid instance, one with a zero-capacity vehicle and one
\* with an empty job window (InputParser.validateInput accepts all three)
InitialInputs == { Instance(14000), Instance(0), BadWindowInstance }

RouteOf(vehicle, load) ==
  [ vehicle |-> vehicle,
    steps |-> << [type |-> "start", load |-> 0],
                 [type |-> "job", load |-> load],
                 [type |-> "end", load |-> 0] >> ]

\* the solutions of solution.json and of the Oracle: n routes, n up to
\* MaxRoutes, the first k of them below the target and the others above (the
\* controller reads the loads of the routes, never their order)
OracleSolutions ==
  { [ routes |-> [i \in 1..n |-> RouteOf(i, IF i <= k THEN LowLoad ELSE HighLoad)],
      unassigned |-> << >> ] :
      n \in 0..MaxRoutes, k \in 0..MaxRoutes }

\* what the Oracle does with a job that does not complete: the POST is
\* rejected, the job ends with status Error, the job is cancelled, or the job
\* is still processing when the wait runs out
OracleFailures == { "rejected", "Error", "cancelled", "processing" }

\* NextBillionClient.getOptimizationStatus: the status it derives from the
\* Oracle's answer; an answer it does not recognise is 'unknown'
getOptimizationStatus(oracleStatus) ==
  IF oracleStatus = "processing" THEN "processing"
  ELSE IF oracleStatus = "Ok" THEN "completed"
  ELSE IF oracleStatus = "Error" THEN "failed"
  ELSE "unknown"

\* NextBillionClient.waitForOptimization: the error it throws for a job whose
\* status never becomes 'completed'
waitForOptimization(oracleStatus) ==
  LET status == getOptimizationStatus(oracleStatus)
  IN IF status = "failed" THEN "Optimization failed"
     ELSE IF status = "cancelled" THEN "Optimization was cancelled"
     ELSE "Optimization timeout"

\* NextBillionClient.runOptimization: the error it throws
apiClient_runOptimization(failure) ==
  IF failure = "rejected" THEN "Failed to submit optimization"
  ELSE waitForOptimization(failure)

\* what this.runOptimization returns: a failure (the caught error; oracle is
\* what the Oracle did with the job), or a completed solution
OracleResults ==
  { [ success |-> FALSE, solution |-> Null,
      error |-> apiClient_runOptimization(f), oracle |-> f ] :
      f \in OracleFailures }
  \cup { [success |-> TRUE, solution |-> sol] : sol \in OracleSolutions }

(* ------------------------------- state --------------------------------- *)

VARIABLES
  pc,                      \* position of run()
  parsedInput,             \* InputParser.parse(input.json)
  parsedSolution,          \* SolutionParser.parse(solution.json)
  currentInput,
  currentSolution,
  iteration,
  successfulIteration,
  lastSuccessfulInput,
  lastSuccessfulSolution,
  modifiedInput,           \* the instance of the normal attempt in progress
  relaxedInput,            \* the instance of the relaxed attempt in progress
  submitted,               \* the instance last handed to runOptimization
  submitCount,             \* number of runOptimization calls
  optimizationResult,      \* what runOptimization returned (also relaxedResult)
  iterationHistory,        \* this.iterationHistory
  bestSolution,            \* this.bestSolution
  totalAttempts,           \* this.totalAttempts
  warnedMax,               \* the "Reached maximum iterations" warning was logged
  report                   \* the value run() returned

\* the state of the mutator called on its own, with the objects it works on
VARIABLES
  heap,                    \* the objects: a sequence, an address is an index
  mInput,                  \* address of the instance passed to the last call
  mBefore,                 \* the value of that instance when the call was made
  mResult,                 \* address of the instance returned, 0 when it threw
  mCall,                   \* the last call: function, variant, strategies
  mPhase,                  \* "fresh", "once", "twice"; "off" in a controller run
  mScenario                \* the analysis and index the strategies come from

cvars == << pc, parsedInput, parsedSolution, currentInput, currentSolution,
            iteration, successfulIteration, lastSuccessfulInput,
            lastSuccessfulSolution, modifiedInput, relaxedInput, submitted,
            submitCount, optimizationResult, iterationHistory, bestSolution,
            totalAttempts, warnedMax, report >>

mvars == << heap, mInput, mBefore, mResult, mCall, mPhase, mScenario >>

\* the analyzer, the generators and the checker called on their own
VARIABLES
  aSolution,               \* the solution they are given
  aIndex,                  \* the iteration index the generators are given
  aAnalysis,               \* analyzeLoadDistribution(aSolution, minLoad)
  aStrategies,             \* createLoadBalancingStrategy(aAnalysis, aIndex),
                           \* empty until it is called
  aRelaxed,                \* createRelaxedLoadBalancingStrategy(aAnalysis, aIndex),
                           \* empty until it is called
  aCheck                   \* the constraints asked for and the checker's answer

avars == << aSolution, aIndex, aAnalysis, aStrategies, aRelaxed, aCheck >>

\* the web client (ROIRIntegration) talking to the Oracle
VARIABLES
  clientPc,                \* "idle", "submit", "poll", "done"; "off" elsewhere
  now,                     \* Date.now(), in ms
  lastApiCall,             \* this.lastApiCall
  maxRetries,              \* this.maxRetries (NEXTBILLION_MAX_RETRIES)
  clientIteration,         \* the iteration runSingleIteration is called for
  attempt,                 \* makeApiCallWithRetry: attempt
  delayMs,                 \* makeApiCallWithRetry: delayMs
  attemptLog,              \* the answers of the attempts of this submission and
                           \* the wait that followed each
  submission,              \* how makeApiCallWithRetry ended: Null while running
  pollCount,               \* waitForOptimization: pollCount
  pollStart,               \* waitForOptimization: startTime
  oracleCalls,             \* the last two requests sent to the Oracle
  latency,                 \* the time the Oracle takes to answer a request
  params,                  \* the OptimizationParams of the page
  requestPayload,          \* runSingleIteration: requestPayload
  results,                 \* runOptimization: results
  lastPoll                 \* the answer to the latest status poll of the job

\* NextBillionClient.waitForOptimization, with its clock
VARIABLES
  waitPc,                  \* "polling", "returned", "threw"; "off" elsewhere
  waitNow,                 \* Date.now(), in ms
  waitStart,               \* startTime
  waitPollCount,           \* pollCount
  statusResponse,          \* the latest answer of getOptimizationStatus
  lastStatusCheck,         \* the time of the latest status request
  waitError,               \* the message of the error thrown, "" if none
  waitLatency              \* the time the Oracle takes to answer

ivars == << clientPc, now, lastApiCall, maxRetries, clientIteration, attempt,
            delayMs, attemptLog, submission, pollCount, pollStart, oracleCalls,
            latency, params, requestPayload, results, lastPoll >>

wvars == << waitPc, waitNow, waitStart, waitPollCount, statusResponse,
            lastStatusCheck, waitError, waitLatency >>

vars == << cvars, mvars, avars, ivars, wvars >>

initialAnalysis == analyzeLoadDistribution(parsedSolution.data, minLoad)

Init ==
  /\ pc = "start"
  /\ parsedInput \in { [data |-> inst] : inst \in InitialInputs }
  /\ parsedSolution \in { SolutionParser_parse(sol) : sol \in OracleSolutions }
  /\ currentInput = Null
  /\ currentSolution = Null
  /\ iteration = 0
  /\ successfulIteration = 0
  /\ lastSuccessfulInput = Null
  /\ lastSuccessfulSolution = Null
  /\ modifiedInput = Null
  /\ relaxedInput = Null
  /\ submitted = Null
  /\ submitCount = 0
  /\ optimizationResult = Null
  /\ iterationHistory = << >>
  /\ bestSolution = Null
  /\ totalAttempts = 0
  /\ warnedMax = FALSE
  /\ report = Null
  /\ heap = << >>
  /\ mInput = 0
  /\ mBefore = Null
  /\ mResult = 0
  /\ mCall = Null
  /\ mPhase = "off"
  /\ mScenario = Null
  /\ aSolution = Null
  /\ aIndex = 0
  /\ aAnalysis = Null
  /\ aStrategies = << >>
  /\ aRelaxed = << >>
  /\ aCheck = Null
  /\ clientPc = "off"
  /\ now = 0
  /\ lastApiCall = 0
  /\ maxRetries = 0
  /\ clientIteration = 0
  /\ attempt = 0
  /\ delayMs = 0
  /\ attemptLog = << >>
  /\ submission = Null
  /\ pollCount = 0
  /\ pollStart = 0
  /\ oracleCalls = << >>
  /\ latency = 0
  /\ params = Null
  /\ requestPayload = Null
  /\ results = << >>
  /\ lastPoll = Null
  /\ waitPc = "off"
  /\ waitNow = 0
  /\ waitStart = 0
  /\ waitPollCount = 0
  /\ statusResponse = Null
  /\ lastStatusCheck = 0
  /\ waitError = ""
  /\ waitLatency = 0

(* ------------------------------ actions -------------------------------- *)

\* the loop was left (while condition false, or break): index.js:295-297,
\* then run() returns generateFinalReport(this.bestSolution, initialAnalysis)
Finish_WarnsOnLastIndex(best, iterAtExit, history, attempts) ==
  /\ pc' = "done"
  /\ warnedMax' = (iterAtExit >= MaxIterations)
  /\ report' = generateFinalReport(best, initialAnalysis, history, attempts, best)

Finish_Rethrows(best, iterAtExit, history, attempts) ==
  /\ pc' = "threw"
  /\ warnedMax' = (iterAtExit > MaxIterations)
  /\ report' = report

Finish(best, iterAtExit, history, attempts) ==
  /\ pc' = "done"
  /\ warnedMax' = (iterAtExit > MaxIterations)
  /\ report' = generateFinalReport(best, initialAnalysis, history, attempts, best)

Run_NoLastSuccessfulPair ==
  /\ pc = "start"
  /\ UNCHANGED << mvars, avars, ivars, wvars >>
  /\ LET constraintCheck ==
           checkSolutionConstraints(parsedSolution.data, [minLoadPerRoute |-> minLoad])
     IN IF constraintCheck.passed
        THEN /\ pc' = "done"
             /\ report' = generateFinalReport(parsedSolution, initialAnalysis,
                                              iterationHistory, totalAttempts,
                                              bestSolution)
             /\ UNCHANGED << currentInput, currentSolution, iteration,
                             successfulIteration, lastSuccessfulInput,
                             lastSuccessfulSolution >>
        ELSE /\ pc' = "loopHead"
             /\ currentInput' = parsedInput.data
             /\ currentSolution' = parsedSolution.data
             /\ iteration' = 1
             /\ successfulIteration' = 0
             /\ lastSuccessfulInput' = Null
             /\ lastSuccessfulSolution' = Null
             /\ UNCHANGED report
  /\ UNCHANGED << parsedInput, parsedSolution, modifiedInput, relaxedInput,
                  submitted, submitCount, optimizationResult, iterationHistory,
                  bestSolution, totalAttempts, warnedMax >>

\* run(), up to the first pass through the loop head
Run ==
  /\ pc = "start"
  /\ UNCHANGED << mvars, avars, ivars, wvars >>
  /\ LET constraintCheck ==
           checkSolutionConstraints(parsedSolution.data, [minLoadPerRoute |-> minLoad])
     IN IF constraintCheck.passed
        THEN /\ pc' = "done"
             /\ report' = generateFinalReport(parsedSolution, initialAnalysis,
                                              iterationHistory, totalAttempts,
                                              bestSolution)
             /\ UNCHANGED << currentInput, currentSolution, iteration,
                             successfulIteration, lastSuccessfulInput,
                             lastSuccessfulSolution >>
        ELSE /\ pc' = "loopHead"
             /\ currentInput' = parsedInput.data
             /\ currentSolution' = parsedSolution.data
             /\ iteration' = 1
             /\ successfulIteration' = 0
             /\ lastSuccessfulInput' = parsedInput.data
             /\ lastSuccessfulSolution' = parsedSolution.data
             /\ UNCHANGED report
  /\ UNCHANGED << parsedInput, parsedSolution, modifiedInput, relaxedInput,
                  submitted, submitCount, optimizationResult, iterationHistory,
                  bestSolution, totalAttempts, warnedMax >>

\* one pass from the while test to the call of runOptimization
LoopHead ==
  /\ pc = "loopHead"
  /\ UNCHANGED << mvars, avars, ivars, wvars >>
  /\ IF iteration > MaxIterations
     THEN /\ Finish(bestSolution, iteration, iterationHistory, totalAttempts)
          /\ UNCHANGED << bestSolution, modifiedInput, submitted, submitCount >>
     ELSE LET analysis == analyzeLoadDistribution(currentSolution, minLoad)
              constraintCheck ==
                checkSolutionConstraints(currentSolution, [minLoadPerRoute |-> minLoad])
              strategies ==
                createLoadBalancingStrategy(analysis, iteration, successfulIteration)
              modified == applyMultipleStrategies(currentInput, strategies)
          IN IF GoalAchieved(constraintCheck, analysis)
             THEN /\ bestSolution' = currentSolution
                  /\ Finish(currentSolution, iteration, iterationHistory, totalAttempts)
                  /\ UNCHANGED << modifiedInput, submitted, submitCount >>
             ELSE IF ~ validateModifiedInput(modified)
             THEN /\ pc' = "threw"
                  /\ modifiedInput' = modified
                  /\ UNCHANGED << bestSolution, submitted, submitCount, warnedMax,
                                  report >>
             ELSE /\ pc' = "awaitNormal"
                  /\ modifiedInput' = modified
                  /\ submitted' = modified
                  /\ submitCount' = submitCount + 1
                  /\ UNCHANGED << bestSolution, warnedMax, report >>
  /\ UNCHANGED << parsedInput, parsedSolution, currentInput, currentSolution,
                  iteration, successfulIteration, lastSuccessfulInput,
                  lastSuccessfulSolution, relaxedInput, optimizationResult,
                  iterationHistory, totalAttempts >>

\* runOptimization returns: the Oracle completed the job with some solution,
\* or the submission or the wait failed
OracleResponds ==
  /\ pc \in { "awaitNormal", "awaitRelaxed" }
  /\ UNCHANGED << mvars, avars, ivars, wvars >>
  /\ \E result \in OracleResults : optimizationResult' = result
  /\ pc' = IF pc = "awaitNormal" THEN "gotNormal" ELSE "gotRelaxed"
  /\ UNCHANGED << parsedInput, parsedSolution, currentInput, currentSolution,
                  iteration, successfulIteration, lastSuccessfulInput,
                  lastSuccessfulSolution, modifiedInput, relaxedInput, submitted,
                  submitCount, iterationHistory, bestSolution, totalAttempts,
                  warnedMax, report >>

\* index.js:184-247 and 285-292: the result of the normal attempt
NormalResult ==
  /\ pc = "gotNormal"
  /\ UNCHANGED << mvars, avars, ivars, wvars >>
  /\ optimizationResult' = Null
  /\ modifiedInput' = Null
  /\ IF ~ optimizationResult.success
     THEN /\ Finish(bestSolution, iteration, iterationHistory, totalAttempts)
          /\ UNCHANGED << currentInput, currentSolution, iteration,
                          successfulIteration, lastSuccessfulInput,
                          lastSuccessfulSolution, relaxedInput, submitted,
                          submitCount, iterationHistory, bestSolution,
                          totalAttempts >>
     ELSE LET newSolution == SolutionParser_parse(optimizationResult.solution)
              newAnalysis == analyzeLoadDistribution(newSolution.data, minLoad)
          IN IF IsSuccessfulIteration(newAnalysis)
             THEN /\ currentSolution' = newSolution.data
                  /\ currentInput' = modifiedInput
                  /\ lastSuccessfulInput' = modifiedInput
                  /\ lastSuccessfulSolution' = newSolution.data
                  /\ successfulIteration' = iteration
                  /\ iterationHistory' =
                       Append(iterationHistory,
                              IterationRecord(iteration, newAnalysis,
                                              newSolution.data, FALSE))
                  /\ bestSolution' = UpdateBest(newSolution, bestSolution)
                  /\ totalAttempts' = totalAttempts + 1
                  /\ iteration' = iteration + 1
                  /\ pc' = "loopHead"
                  /\ UNCHANGED << relaxedInput, submitted, submitCount, warnedMax,
                                  report >>
             ELSE IF CanRevert(successfulIteration)
             THEN LET relaxedStrategies ==
                        createRelaxedLoadBalancingStrategy(
                          analyzeLoadDistribution(lastSuccessfulSolution, minLoad),
                          iteration, successfulIteration)
                      relaxed ==
                        applyMultipleStrategies(lastSuccessfulInput, relaxedStrategies)
                  IN /\ currentInput' = lastSuccessfulInput
                     /\ currentSolution' = lastSuccessfulSolution
                     /\ relaxedInput' = relaxed
                     /\ IF ~ validateModifiedInput(relaxed)
                        THEN /\ pc' = "threw"
                             /\ UNCHANGED << submitted, submitCount >>
                        ELSE /\ pc' = "awaitRelaxed"
                             /\ submitted' = relaxed
                             /\ submitCount' = submitCount + 1
                     /\ UNCHANGED << iteration, successfulIteration,
                                     lastSuccessfulInput, lastSuccessfulSolution,
                                     iterationHistory, bestSolution, totalAttempts,
                                     warnedMax, report >>
             ELSE /\ Finish(bestSolution, iteration, iterationHistory, totalAttempts)
                  /\ UNCHANGED << currentInput, currentSolution, iteration,
                                  successfulIteration, lastSuccessfulInput,
                                  lastSuccessfulSolution, relaxedInput, submitted,
                                  submitCount, iterationHistory, bestSolution,
                                  totalAttempts >>
  /\ UNCHANGED << parsedInput, parsedSolution >>

RelaxedResult_BreakOnFailure ==
  /\ pc = "gotRelaxed"
  /\ UNCHANGED << mvars, avars, ivars, wvars >>
  /\ optimizationResult' = Null
  /\ relaxedInput' = Null
  /\ IF ~ optimizationResult.success
     THEN /\ Finish(bestSolution, iteration, iterationHistory, totalAttempts)
          /\ UNCHANGED << currentSolution, currentInput, lastSuccessfulInput,
                          lastSuccessfulSolution, successfulIteration,
                          iterationHistory, bestSolution, totalAttempts,
                          iteration >>
     ELSE /\ UNCHANGED << currentSolution, currentInput, lastSuccessfulInput,
                          lastSuccessfulSolution, successfulIteration,
                          iterationHistory, bestSolution, warnedMax, report >>
          /\ totalAttempts' = totalAttempts + 1
          /\ iteration' = iteration + 1
          /\ pc' = "loopHead"
  /\ UNCHANGED << parsedInput, parsedSolution, modifiedInput, submitted,
                  submitCount >>

\* index.js:249-292: the result of the relaxed attempt
RelaxedResult ==
  /\ pc = "gotRelaxed"
  /\ UNCHANGED << mvars, avars, ivars, wvars >>
  /\ optimizationResult' = Null
  /\ relaxedInput' = Null
  /\ LET relaxedSolution == SolutionParser_parse(optimizationResult.solution)
         relaxedAnalysis == analyzeLoadDistribution(relaxedSolution.data, minLoad)
     IN IF optimizationResult.success /\ RelaxedSucceeded(relaxedAnalysis)
        THEN /\ currentSolution' = relaxedSolution.data
             /\ currentInput' = relaxedInput
             /\ lastSuccessfulInput' = relaxedInput
             /\ lastSuccessfulSolution' = relaxedSolution.data
             /\ successfulIteration' = iteration
             /\ iterationHistory' =
                  Append(iterationHistory,
                         IterationRecord(iteration, relaxedAnalysis,
                                         relaxedSolution.data, TRUE))
             /\ bestSolution' = UpdateBest(relaxedSolution, bestSolution)
        ELSE UNCHANGED << currentSolution, currentInput, lastSuccessfulInput,
                          lastSuccessfulSolution, successfulIteration,
                          iterationHistory, bestSolution >>
  /\ totalAttempts' = totalAttempts + 1
  /\ iteration' = iteration + 1
  /\ pc' = "loopHead"
  /\ UNCHANGED << parsedInput, parsedSolution, modifiedInput, submitted,
                  submitCount, warnedMax, report >>

Next == Run \/ LoopHead \/ OracleResponds \/ NormalResult \/ RelaxedResult

Spec == Init /\ [][Next]_vars

(* ------------------- InputModifier on JavaScript objects ---------------- *)

\* An instance in memory is a graph of objects: the root holds the addresses
\* of the vehicles array, the jobs array and the options object; an array
\* holds the addresses of its elements; the options object holds the
\* objective and the address of the constraint object.  Number arrays and the
\* objective are only ever replaced whole and are held as values.

Range(seq) == { seq[i] : i \in 1..Len(seq) }

IndexOf(seq, x) == CHOOSE i \in 1..Len(seq) : seq[i] = x

\* JSON.stringify: the value of the object graph of root
Stringify(h, root) ==
  LET vehicles == h[h[root].vehicles].items
      jobs == h[h[root].jobs].items
      options == h[h[root].options]
  IN [ vehicles |-> [i \in 1..Len(vehicles) |-> h[vehicles[i]].value],
       jobs |-> [j \in 1..Len(jobs) |-> h[jobs[j]].value],
       options |-> [ objective |-> options.objective,
                     constraint |-> h[options.constraint].value ] ]

\* JSON.parse: builds the object graph of a value out of new objects
Parse(h, inst) ==
  LET base == Len(h)
      nv == Len(inst.vehicles)
      nj == Len(inst.jobs)
      vehicles == [i \in 1..nv |-> [kind |-> "vehicle", value |-> inst.vehicles[i]]]
      jobs == [j \in 1..nj |-> [kind |-> "job", value |-> inst.jobs[j]]]
      vehiclesAt == base + nv + 1
      jobsAt == vehiclesAt + nj + 1
  IN [ heap |->
         h \o vehicles
           \o << [kind |-> "array", items |-> [i \in 1..nv |-> base + i]] >>
           \o jobs
           \o << [kind |-> "array", items |-> [j \in 1..nj |-> vehiclesAt + j]],
                 [kind |-> "constraint", value |-> inst.options.constraint],
                 [ kind |-> "options", objective |-> inst.options.objective,
                   constraint |-> jobsAt + 1 ],
                 [ kind |-> "instance", vehicles |-> vehiclesAt, jobs |-> jobsAt,
                   options |-> jobsAt + 2 ] >>,
       root |-> jobsAt + 3 ]

\* a copy of the root object alone, as { ...input } makes it
deepCopy_Shallow(h, root) == [heap |-> Append(h, h[root]), root |-> Len(h) + 1]

\* JSON.parse(JSON.stringify(input))
deepCopy(h, root) == Parse(h, Stringify(h, root))

\* the assignments and pushes by which a mutator function takes the instance
\* it was passed to the value inst: vehicles and jobs are written in place,
\* new vehicles are new objects pushed on the vehicles array, the objective
\* and the constraint fields are written on the options and constraint objects
Assign(h, root, inst) ==
  LET vehicles == h[h[root].vehicles].items
      jobs == h[h[root].jobs].items
      added == Len(inst.vehicles) - Len(vehicles)
      written ==
        [a \in 1..Len(h) |->
           IF a = h[root].vehicles
           THEN [h[a] EXCEPT !.items = vehicles \o [i \in 1..added |-> Len(h) + i]]
           ELSE IF a \in Range(vehicles)
           THEN [h[a] EXCEPT !.value = inst.vehicles[IndexOf(vehicles, a)]]
           ELSE IF a \in Range(jobs)
           THEN [h[a] EXCEPT !.value = inst.jobs[IndexOf(jobs, a)]]
           ELSE IF a = h[root].options
           THEN [h[a] EXCEPT !.objective = inst.options.objective]
           ELSE IF a = h[h[root].options].constraint
           THEN [h[a] EXCEPT !.value = inst.options.constraint]
           ELSE h[a]]
  IN written \o [i \in 1..added |->
                   [kind |-> "vehicle", value |-> inst.vehicles[Len(vehicles) + i]]]

\* the switch of modifyForLoadBalancing in the two variants of the mutator
Modify(variant, input, strategy) ==
  IF variant = "constraints" THEN modifyForLoadBalancing_005(input, strategy)
                             ELSE modifyForLoadBalancing(input, strategy)

\* modifyForLoadBalancing on objects: copy, then mutate the copy in place and
\* return it; root 0 when the strategy type is unknown and it throws
modifyForLoadBalancing_Objects(h, root, strategy, variant) ==
  LET copy == deepCopy(h, root)
      value == Modify(variant, Stringify(copy.heap, copy.root), strategy)
  IN IF value = Null
     THEN [heap |-> copy.heap, root |-> 0]
     ELSE [heap |-> Assign(copy.heap, copy.root, value), root |-> copy.root]

RECURSIVE ApplyEach(_, _, _, _)
ApplyEach(h, root, strategies, variant) ==
  IF strategies = << >> THEN [heap |-> h, root |-> root]
  ELSE LET r == modifyForLoadBalancing_Objects(h, root, strategies[1], variant)
       IN IF r.root = 0 THEN r
          ELSE ApplyEach(r.heap, r.root, Tail(strategies), variant)

\* applyMultipleStrategies on objects
applyMultipleStrategies_Objects(h, root, strategies, variant) ==
  LET copy == deepCopy(h, root)
  IN ApplyEach(copy.heap, copy.root, strategies, variant)

\* the weights of the constraint_addition strategy, in tenths
loadBalanceWeights == << 7, 5, 8, 6, 9 >>

\* the constraint_addition strategies of the generators of the variant with
\* load constraints: the normal one and the relaxed one
LoadConstraintStrategies(analysis, index) ==
  { [ type |-> "constraint_addition",
      minLoadPerRoute |-> 12000,
      loadBalanceWeight |-> loadBalanceWeights[(index % Len(loadBalanceWeights)) + 1],
      priority |-> "high" ],
    [ type |-> "constraint_addition",
      minLoadPerRoute |->
        IF analysis.summary.targetMinLoad \div 2 > 6000
        THEN analysis.summary.targetMinLoad \div 2 ELSE 6000,
      loadBalanceWeight |-> 3,
      priority |-> "high" ] }

\* an instance whose vehicle ids are "03" and "7"
SparseIdInstance ==
  [Instance(14000) EXCEPT !.vehicles[1].id = << 0, 3 >>, !.vehicles[2].id = << 7 >>]

\* the instances the mutator is called on first
MutatorInputs == { Instance(14000), Instance(0), SparseIdInstance }

\* the calls the controller and the generators give rise to at an index: the
\* whole strategy list through applyMultipleStrategies, each strategy alone
\* through modifyForLoadBalancing, and a constraint_addition strategy through
\* applyMultipleStrategies of either variant
Calls(analysis, index) ==
  LET normal == createLoadBalancingStrategy(analysis, index, 0)
      relaxed == createRelaxedLoadBalancingStrategy(analysis, index, 0)
  IN { [fn |-> "applyMultipleStrategies", variant |-> "softening", strategies |-> l] :
         l \in { normal, relaxed } }
     \cup
     { [fn |-> "modifyForLoadBalancing", variant |-> "softening", strategies |-> << s >>] :
         s \in Range(normal) \cup Range(relaxed) }
     \cup
     { [fn |-> "applyMultipleStrategies", variant |-> v, strategies |-> << c >>] :
         v \in { "softening", "constraints" },
         c \in LoadConstraintStrategies(analysis, index) }

MutatorInit ==
  /\ pc = "off"
  /\ parsedInput = Null
  /\ parsedSolution = Null
  /\ currentInput = Null
  /\ currentSolution = Null
  /\ iteration = 0
  /\ successfulIteration = 0
  /\ lastSuccessfulInput = Null
  /\ lastSuccessfulSolution = Null
  /\ modifiedInput = Null
  /\ relaxedInput = Null
  /\ submitted = Null
  /\ submitCount = 0
  /\ optimizationResult = Null
  /\ iterationHistory = << >>
  /\ bestSolution = Null
  /\ totalAttempts = 0
  /\ warnedMax = FALSE
  /\ report = Null
  /\ \E inst \in MutatorInputs :
        /\ heap = Parse(<< >>, inst).heap
        /\ mInput = Parse(<< >>, inst).root
  /\ mScenario \in
       { [analysis |-> analyzeLoadDistribution(sol, minLoad), index |-> i] :
           sol \in { x \in OracleSolutions : Len(x.routes) > 0 },
           i \in 1..Len(relaxationMinutes) }
  /\ mBefore = Null
  /\ mResult = 0
  /\ mCall = Null
  /\ mPhase = "fresh"
  /\ aSolution = Null
  /\ aIndex = 0
  /\ aAnalysis = Null
  /\ aStrategies = << >>
  /\ aRelaxed = << >>
  /\ aCheck = Null
  /\ clientPc = "off"
  /\ now = 0
  /\ lastApiCall = 0
  /\ maxRetries = 0
  /\ clientIteration = 0
  /\ attempt = 0
  /\ delayMs = 0
  /\ attemptLog = << >>
  /\ submission = Null
  /\ pollCount = 0
  /\ pollStart = 0
  /\ oracleCalls = << >>
  /\ latency = 0
  /\ params = Null
  /\ requestPayload = Null
  /\ results = << >>
  /\ lastPoll = Null
  /\ waitPc = "off"
  /\ waitNow = 0
  /\ waitStart = 0
  /\ waitPollCount = 0
  /\ statusResponse = Null
  /\ lastStatusCheck = 0
  /\ waitError = ""
  /\ waitLatency = 0

\* one call of the mutator on the instance at root
Call(root, call) ==
  LET r == IF call.fn = "applyMultipleStrategies"
           THEN applyMultipleStrategies_Objects(heap, root, call.strategies,
                                                call.variant)
           ELSE modifyForLoadBalancing_Objects(heap, root, call.strategies[1],
                                               call.variant)
  IN /\ heap' = r.heap
     /\ mInput' = root
     /\ mBefore' = Stringify(heap, root)
     /\ mResult' = r.root
     /\ mCall' = call

\* the mutator is called on a parsed instance
CallOnInput ==
  /\ mPhase = "fresh"
  /\ \E call \in Calls(mScenario.analysis, mScenario.index) : Call(mInput, call)
  /\ mPhase' = "once"
  /\ UNCHANGED << cvars, avars, ivars, wvars, mScenario >>

\* the mutator is called, at the next index, on the instance it returned
CallOnResult ==
  /\ mPhase = "once"
  /\ mResult # 0
  /\ \E call \in Calls(mScenario.analysis, mScenario.index + 1) : Call(mResult, call)
  /\ mPhase' = "twice"
  /\ UNCHANGED << cvars, avars, ivars, wvars, mScenario >>

MutatorNext == CallOnInput \/ CallOnResult

MutatorSpec == MutatorInit /\ [][MutatorNext]_vars

(* ------- the analyzer, the generators and the checker on their own ------ *)

\* the steps of the routes the analyzer is given: a start step that carries
\* the load the vehicle leaves with, the job steps, an end step; a job step
\* may come without a load
StepsOf(startLoad, jobLoads) ==
  << [type |-> "start", load |-> startLoad] >>
    \o [i \in 1..Len(jobLoads) |->
          IF jobLoads[i] = Unset THEN [type |-> "job"]
                                 ELSE [type |-> "job", load |-> jobLoads[i]]]
    \o << [type |-> "end", load |-> 0] >>

\* no job; one job below the target, and one above it, on a vehicle that left
\* loaded; two jobs that add up to the target exactly; a job below the target
\* next to a job without a load; one job of 110 % of the target
RouteShapes ==
  { StepsOf(0, << >>),
    StepsOf(LowLoad, << LowLoad >>),
    StepsOf(LowLoad, << HighLoad >>),
    StepsOf(0, << minLoad \div 2, minLoad - (minLoad \div 2) >>),
    StepsOf(0, << LowLoad, Unset >>),
    StepsOf(0, << (11 * minLoad) \div 10 >>) }

\* the solutions with up to MaxAnalyzedRoutes routes of these shapes, and one
\* with ManyRoutes routes that carry nothing
AnalyzedSolutions ==
  { [ routes |-> [i \in 1..n |-> [vehicle |-> i, steps |-> shapes[i]]],
      unassigned |-> << >> ] :
      n \in 0..MaxAnalyzedRoutes, shapes \in [1..MaxAnalyzedRoutes -> RouteShapes] }
  \cup { [ routes |-> [i \in 1..ManyRoutes |-> [vehicle |-> i, steps |-> StepsOf(0, << >>)]],
           unassigned |-> << >> ] }

\* what a caller may ask the checker for: nothing, the controller's minimum
\* load, a maximum load, a maximum number of routes, all of them
ConstraintSets ==
  { [minLoadPerRoute |-> 0],
    [minLoadPerRoute |-> minLoad],
    [maxLoadPerRoute |-> minLoad],
    [maxRoutes |-> 1],
    [minLoadPerRoute |-> minLoad, maxLoadPerRoute |-> HighLoad, maxRoutes |-> 2] }

AnalyzerInit ==
  /\ pc = "off"
  /\ parsedInput = Null
  /\ parsedSolution = Null
  /\ currentInput = Null
  /\ currentSolution = Null
  /\ iteration = 0
  /\ successfulIteration = 0
  /\ lastSuccessfulInput = Null
  /\ lastSuccessfulSolution = Null
  /\ modifiedInput = Null
  /\ relaxedInput = Null
  /\ submitted = Null
  /\ submitCount = 0
  /\ optimizationResult = Null
  /\ iterationHistory = << >>
  /\ bestSolution = Null
  /\ totalAttempts = 0
  /\ warnedMax = FALSE
  /\ report = Null
  /\ heap = << >>
  /\ mInput = 0
  /\ mBefore = Null
  /\ mResult = 0
  /\ mCall = Null
  /\ mPhase = "off"
  /\ mScenario = Null
  /\ clientPc = "off"
  /\ now = 0
  /\ lastApiCall = 0
  /\ maxRetries = 0
  /\ clientIteration = 0
  /\ attempt = 0
  /\ delayMs = 0
  /\ attemptLog = << >>
  /\ submission = Null
  /\ pollCount = 0
  /\ pollStart = 0
  /\ oracleCalls = << >>
  /\ latency = 0
  /\ params = Null
  /\ requestPayload = Null
  /\ results = << >>
  /\ lastPoll = Null
  /\ waitPc = "off"
  /\ waitNow = 0
  /\ waitStart = 0
  /\ waitPollCount = 0
  /\ statusResponse = Null
  /\ lastStatusCheck = 0
  /\ waitError = ""
  /\ waitLatency = 0
  /\ aSolution \in AnalyzedSolutions
  /\ aIndex \in 0..MaxIndex
  /\ aAnalysis = Null
  /\ aStrategies = << >>
  /\ aRelaxed = << >>
  /\ aCheck = Null

\* LoadAnalyzer.analyzeLoadDistribution(solution, 12000)
Analyze ==
  /\ aAnalysis = Null
  /\ aAnalysis' = analyzeLoadDistribution(aSolution, minLoad)
  /\ UNCHANGED << cvars, mvars, ivars, wvars, aSolution, aIndex, aStrategies, aRelaxed,
                  aCheck >>

\* InputModifier.createLoadBalancingStrategy(analysis, i, successfulIteration)
Generate ==
  /\ aAnalysis # Null
  /\ aStrategies = << >>
  /\ aStrategies' = createLoadBalancingStrategy(aAnalysis, aIndex, 0)
  /\ UNCHANGED << cvars, mvars, ivars, wvars, aSolution, aIndex, aAnalysis, aRelaxed,
                  aCheck >>

\* InputModifier.createRelaxedLoadBalancingStrategy(analysis, i, successfulIteration)
GenerateRelaxed ==
  /\ aAnalysis # Null
  /\ aRelaxed = << >>
  /\ aRelaxed' = createRelaxedLoadBalancingStrategy(aAnalysis, aIndex, 0)
  /\ UNCHANGED << cvars, mvars, ivars, wvars, aSolution, aIndex, aAnalysis, aStrategies,
                  aCheck >>

\* ConstraintChecker.checkSolutionConstraints(solution, constraints)
CheckConstraints ==
  /\ aCheck = Null
  /\ \E constraints \in ConstraintSets :
        aCheck' = [ constraints |-> constraints,
                    result |-> checkSolutionConstraints(aSolution, constraints) ]
  /\ UNCHANGED << cvars, mvars, ivars, wvars, aSolution, aIndex, aAnalysis, aStrategies,
                  aRelaxed >>

AnalyzerNext == Analyze \/ Generate \/ GenerateRelaxed \/ CheckConstraints

AnalyzerSpec == AnalyzerInit /\ [][AnalyzerNext]_vars

(* ------------------------- claims C1 .. C10 ---------------------------- *)

\* the normal attempt returned a completed solution
NormalAnswered == pc = "gotNormal" /\ optimizationResult.success

\* the relaxed attempt returned a completed solution
RelaxedAnswered == pc = "gotRelaxed" /\ optimizationResult.success

\* number of routes of a solution whose load reaches the target
HighCount(solution) ==
  Cardinality({ i \in 1..Len(solution.routes) :
                  calculateRouteLoad(solution.routes[i]) >= minLoad })

\* compliance of a is strictly higher than compliance of b (both with routes)
HigherCompliance(a, b) ==
  HighCount(a) * Len(b.routes) > HighCount(b) * Len(a.routes)

SameCompliance(a, b) ==
  HighCount(a) * Len(b.routes) = HighCount(b) * Len(a.routes)

\* C1: when the normal attempt of iteration i returns zero routes and an
\* earlier iteration has succeeded, the run does not end: still at index i the
\* controller builds the relaxed strategy set from the last successful
\* solution, applies it to the last successful input, validates the result and
\* submits it; the index advances only after that submission is answered.
C1_DegenerateTriggersRecovery ==
  /\ [][ ( /\ NormalAnswered
           /\ Len(optimizationResult.solution.routes) = 0
           /\ successfulIteration > 0 )
         => ( /\ pc' = "awaitRelaxed"
              /\ iteration' = iteration
              /\ submitCount' = submitCount + 1
              /\ submitted' =
                   applyMultipleStrategies(
                     lastSuccessfulInput,
                     createRelaxedLoadBalancingStrategy(
                       analyzeLoadDistribution(lastSuccessfulSolution, minLoad),
                       iteration, successfulIteration))
              /\ ValidationErrors(submitted') = {}
              /\ submitted'.options.constraint.max_vehicle_overtime = 7200 ) ]_vars
  /\ [][ pc = "awaitRelaxed" => iteration' = iteration ]_vars

C1_Witness ==
  /\ pc = "awaitRelaxed"
  /\ submitted = relaxedInput
  /\ successfulIteration > 0
  /\ iteration > successfulIteration

\* C2: bestSolution is absent or has at least one route, whatever the Oracle
\* returned for the normal and the relaxed attempts.
C2_BestNeverDegenerate ==
  bestSolution = Null \/ Len(bestSolution.routes) >= 1

\* an index whose normal and relaxed attempts were not recorded lies behind,
\* and a best solution is held
C2_Witness ==
  /\ pc = "loopHead"
  /\ bestSolution # Null
  /\ totalAttempts > Len(iterationHistory)

\* C3: with an initial solution that has routes, zero routes at iteration 1
\* lead to a recovery submission built from the iteration-0 pair before the
\* index advances to 2.
C3_InitialPairIsRevertTarget ==
  [][ ( /\ NormalAnswered
        /\ iteration = 1
        /\ Len(optimizationResult.solution.routes) = 0
        /\ Len(parsedSolution.data.routes) >= 1 )
      => ( /\ pc' = "awaitRelaxed"
           /\ iteration' = 1
           /\ submitCount' = submitCount + 1 ) ]_vars

\* C4: a relaxed attempt that returns at least one route is recorded with
\* relaxed = TRUE, becomes the current and the last successful pair, sets the
\* last successful index and is offered to the best-solution comparison.
C4_RelaxedSuccessAdopted ==
  [][ ( RelaxedAnswered /\ Len(optimizationResult.solution.routes) >= 1 )
      => ( /\ Len(iterationHistory') = Len(iterationHistory) + 1
           /\ iterationHistory'[Len(iterationHistory')].relaxed = TRUE
           /\ iterationHistory'[Len(iterationHistory')].iteration = iteration
           /\ currentInput' = relaxedInput
           /\ currentSolution'.routes = optimizationResult.solution.routes
           /\ lastSuccessfulInput' = relaxedInput
           /\ lastSuccessfulSolution' = currentSolution'
           /\ successfulIteration' = iteration
           /\ bestSolution' =
                UpdateBest(SolutionParser_parse(optimizationResult.solution),
                           bestSolution) ) ]_vars

\* C5: a relaxed attempt that returns zero routes adopts nothing: the current
\* pair, the last successful pair and index, bestSolution and the history
\* keep the values they had before the recovery attempt; only the iteration
\* index and the attempt counter advance by one.
C5_RelaxedFailureAdoptsNothing ==
  /\ [][ ( pc = "gotNormal" /\ pc' = "awaitRelaxed" )
         => UNCHANGED << currentInput, currentSolution, lastSuccessfulInput,
                         lastSuccessfulSolution, successfulIteration,
                         bestSolution, iterationHistory, iteration,
                         totalAttempts >> ]_vars
  /\ [][ ( RelaxedAnswered /\ Len(optimizationResult.solution.routes) = 0 )
         => ( /\ UNCHANGED << currentInput, currentSolution, lastSuccessfulInput,
                              lastSuccessfulSolution, successfulIteration,
                              bestSolution, iterationHistory >>
              /\ iteration' = iteration + 1
              /\ totalAttempts' = totalAttempts + 1 ) ]_vars

C5_Witness ==
  /\ RelaxedAnswered
  /\ Len(optimizationResult.solution.routes) = 0
  /\ bestSolution # Null
  /\ Len(iterationHistory) >= 1

\* C6: a starting solution that passes the min-load check and has a route
\* ends run() without any submission, with a report that carries it as the
\* best solution: constraints met, best solution found, its real compliance.
C6_InitialPassReportsSuccess ==
  ( /\ pc = "done"
    /\ Len(parsedSolution.data.routes) >= 1
    /\ HighCount(parsedSolution.data) = Len(parsedSolution.data.routes) )
  => ( /\ submitCount = 0
       /\ report.summary.constraintsMet
       /\ report.summary.bestSolutionFound
       /\ FracEq(report.summary.finalComplianceRate, Frac(100, 1)) )

\* C7: at the head of an iteration, a current solution that passes the
\* min-load check and has a route stops the loop with that solution as best;
\* no submission is made.
C7_LoopHeadStopsOnSuccess ==
  [][ ( /\ pc = "loopHead"
        /\ iteration <= MaxIterations
        /\ Len(currentSolution.routes) >= 1
        /\ HighCount(currentSolution) = Len(currentSolution.routes) )
      => ( /\ pc' = "done"
           /\ bestSolution' = currentSolution
           /\ submitCount' = submitCount ) ]_vars

\* C8: between two solutions with routes, the new one is better when its
\* compliance is strictly higher, whatever the route counts, and not better
\* when it is strictly lower; the compliance of bestSolution never decreases.
C8_HigherComplianceWins ==
  /\ [] ( ( /\ NormalAnswered
            /\ Len(optimizationResult.solution.routes) >= 1
            /\ bestSolution # Null )
          => LET new == SolutionParser_parse(optimizationResult.solution)
             IN /\ HigherCompliance(new.data, bestSolution)
                     => isBetterSolution(new, bestSolution)
                /\ HigherCompliance(bestSolution, new.data)
                     => ~ isBetterSolution(new, bestSolution) )
  /\ [][ ( bestSolution # Null /\ bestSolution' # bestSolution )
         => ~ HigherCompliance(bestSolution, bestSolution') ]_vars

\* the new solution has more routes and a higher compliance than the incumbent
C8_Witness ==
  /\ NormalAnswered
  /\ bestSolution # Null
  /\ Len(optimizationResult.solution.routes) > Len(bestSolution.routes)
  /\ HigherCompliance(optimizationResult.solution, bestSolution)

\* C9: between two solutions with routes and equal compliance, the new one is
\* better exactly when it has strictly fewer routes.
C9_FewerRoutesBreaksTie ==
  ( /\ NormalAnswered
    /\ Len(optimizationResult.solution.routes) >= 1
    /\ bestSolution # Null
    /\ SameCompliance(optimizationResult.solution, bestSolution) )
  => ( isBetterSolution(SolutionParser_parse(optimizationResult.solution),
                        bestSolution)
       <=> Len(optimizationResult.solution.routes) < Len(bestSolution.routes) )

\* C10: bestSolution changes only as the outcome of the comparison: the new
\* value is the solution just returned and isBetterSolution held for it
\* against the incumbent.
C10_BestOnlyThroughSelector ==
  [][ bestSolution' # bestSolution
      => ( /\ pc \in { "gotNormal", "gotRelaxed" }
           /\ optimizationResult.success
           /\ isBetterSolution(SolutionParser_parse(optimizationResult.solution),
                               bestSolution)
           /\ bestSolution' = SolutionParser_parse(optimizationResult.solution).data
         ) ]_vars

\* the second recorded solution replaced the first as best
C10_Witness ==
  /\ Len(iterationHistory) >= 2
  /\ bestSolution = iterationHistory[2].solution
  /\ bestSolution # iterationHistory[1].solution

(* ------------------------- claims C11 .. C16 --------------------------- *)

\* runOptimization reported a failure for the normal / the relaxed attempt
NormalFailed == pc = "gotNormal" /\ ~ optimizationResult.success

RelaxedFailed == pc = "gotRelaxed" /\ ~ optimizationResult.success

\* the report of a run without a best solution
AllFailedReport(r) ==
  /\ r # Null
  /\ ~ r.summary.bestSolutionFound
  /\ ~ r.summary.constraintsMet
  /\ FracEq(r.summary.finalComplianceRate, Frac(0, 1))
  /\ r.recommendations = "no_successful_iterations"

\* C11: a zero-route result of the normal attempt, returned while no
\* iteration has succeeded, ends the run: no recovery submission, no later
\* index, bestSolution stays absent and the report is the all-failed report.
C11_DegenerateWithoutSuccessStops ==
  [][ ( /\ NormalAnswered
        /\ Len(optimizationResult.solution.routes) = 0
        /\ successfulIteration = 0 )
      => ( /\ pc' = "done"
           /\ submitCount' = submitCount
           /\ iteration' = iteration
           /\ bestSolution = Null
           /\ bestSolution' = Null
           /\ AllFailedReport(report')
           /\ report'.iterationHistory = << >> ) ]_vars

\* the first attempt is about to be answered with zero routes
C11_Witness ==
  /\ NormalAnswered
  /\ Len(optimizationResult.solution.routes) = 0
  /\ successfulIteration = 0
  /\ iteration = 1

\* the position of the run in the order start < loop head < normal attempt <
\* relaxed attempt < next index < ... < end
Progress ==
  CASE pc = "start" -> 0
    [] pc = "loopHead" -> 5 * iteration
    [] pc = "awaitNormal" -> 5 * iteration + 1
    [] pc = "gotNormal" -> 5 * iteration + 2
    [] pc = "awaitRelaxed" -> 5 * iteration + 3
    [] pc = "gotRelaxed" -> 5 * iteration + 4
    [] OTHER -> 5 * (MaxIterations + 2)

\* C12: the loop ends after at most MaxIterations indices and 2 x
\* MaxIterations submissions (every step advances a bounded measure and no
\* step follows the end); the warning is logged exactly when the loop was left
\* with the index beyond the bound, and such a run returns a report built from
\* bestSolution: its compliance, not exceeded by any recorded iteration, or
\* the all-failed report when there is none.
C12_BoundedLoopAndWarning ==
  /\ [] ( /\ iteration <= MaxIterations + 1
          /\ submitCount <= 2 * MaxIterations
          /\ Progress \in 0 .. 5 * (MaxIterations + 2) )
  /\ [][ Progress' > Progress ]_vars
  /\ [][ submitCount' # submitCount
         => ( iteration \in 1..MaxIterations /\ submitCount' = submitCount + 1 )
     ]_vars
  /\ [][ ( pc = "loopHead" /\ iteration > MaxIterations )
         => ( pc' = "done" /\ warnedMax' ) ]_vars
  /\ [] ( pc = "done" => ( warnedMax <=> iteration > MaxIterations ) )
  /\ [] ( pc = "threw" => ~ warnedMax )
  /\ [] ( ( pc = "done" /\ warnedMax )
          => IF bestSolution = Null
             THEN AllFailedReport(report)
             ELSE /\ report.summary.bestSolutionFound
                  /\ Len(bestSolution.routes) > 0
                  /\ FracEq(report.summary.finalComplianceRate,
                            analyzeLoadDistribution(bestSolution, minLoad)
                              .summary.complianceRate)
                  /\ \A k \in 1..Len(iterationHistory) :
                       ~ FracGT(iterationHistory[k].analysis.summary.complianceRate,
                                report.summary.finalComplianceRate) )

\* the bound was exhausted by a run that also made recovery attempts
C12_Witness ==
  /\ pc = "done"
  /\ warnedMax
  /\ bestSolution # Null
  /\ submitCount > MaxIterations

\* C13 as stated: a failure reported by runOptimization, for the normal or
\* for the relaxed attempt, ends the run: no later index, no more submission.
C13_AnyFailureEndsRun ==
  [][ ( NormalFailed \/ RelaxedFailed )
      => ( pc' = "done" /\ iteration' = iteration /\ submitCount' = submitCount )
    ]_vars

\* C13, amended: a failure of the normal attempt ends the run (no later index,
\* no more submission, and no step follows the end); a failure of the relaxed
\* attempt does not: nothing is adopted and the loop goes on with the next
\* index.
C13_FailureEndsRunOnNormalAttemptOnly ==
  /\ [][ NormalFailed
         => ( /\ pc' = "done"
              /\ iteration' = iteration
              /\ submitCount' = submitCount
              /\ report' # Null ) ]_vars
  /\ [][ pc # "done" ]_vars
  /\ [][ RelaxedFailed
         => ( /\ pc' = "loopHead"
              /\ iteration' = iteration + 1
              /\ totalAttempts' = totalAttempts + 1
              /\ UNCHANGED << currentInput, currentSolution, lastSuccessfulInput,
                              lastSuccessfulSolution, successfulIteration,
                              bestSolution, iterationHistory, submitCount,
                              report >> ) ]_vars

\* a relaxed attempt is about to be answered with a failure while an index
\* is left to try
C13_Witness ==
  /\ RelaxedFailed
  /\ iteration < MaxIterations
  /\ successfulIteration > 0

\* the Oracle reported the job of the attempt as failed or cancelled
OracleReportedFailure ==
  /\ pc \in { "gotNormal", "gotRelaxed" }
  /\ ~ optimizationResult.success
  /\ optimizationResult.oracle \in { "Error", "cancelled" }

C15_NoSuccessStillReports ==
  ( /\ pc \in { "done", "threw" }
    /\ iteration >= 1
    /\ iterationHistory = << >> )
  => ( /\ pc = "done"
       /\ AllFailedReport(report)
       /\ report.iterationHistory = << >> )

\* validity of an instance, as the claim words it
InstanceValid(inst) ==
  /\ \A v \in 1..Len(inst.vehicles) :
       /\ inst.vehicles[v].capacity > 0
       /\ inst.vehicles[v].time_window[1] < inst.vehicles[v].time_window[2]
  /\ \A j \in 1..Len(inst.jobs) :
       \A n \in 1..Len(inst.jobs[j].time_windows) :
          inst.jobs[j].time_windows[n][1] < inst.jobs[j].time_windows[n][2]

\* the ids of the vehicles / jobs that make an instance invalid
OffendingVehicles(inst) ==
  { inst.vehicles[v].id :
      v \in { w \in 1..Len(inst.vehicles) :
                \/ inst.vehicles[w].capacity <= 0
                \/ inst.vehicles[w].time_window[1] >= inst.vehicles[w].time_window[2] } }

OffendingJobs(inst) ==
  { inst.jobs[j].id :
      j \in { k \in 1..Len(inst.jobs) :
                \E n \in 1..Len(inst.jobs[k].time_windows) :
                   inst.jobs[k].time_windows[n][1] >= inst.jobs[k].time_windows[n][2] } }

\* C16: every instance handed to runOptimization, by the normal or by the
\* relaxed attempt, is the candidate just built and is valid; a candidate
\* that is not valid makes the attempt throw, with an error that names
\* exactly the offending vehicles and jobs, and nothing is submitted.
C16_OnlyValidInstancesSubmitted ==
  /\ [] ( submitted # Null => InstanceValid(submitted) )
  /\ [][ submitCount' # submitCount
         => ( /\ submitted' = ( IF pc = "loopHead" THEN modifiedInput'
                                                   ELSE relaxedInput' )
              /\ InstanceValid(submitted') ) ]_vars
  /\ [][ pc' = "threw"
         => LET candidate == IF pc = "loopHead" THEN modifiedInput'
                                                ELSE relaxedInput'
            IN /\ ~ InstanceValid(candidate)
               /\ submitCount' = submitCount
               /\ submitted' = submitted
               /\ { e[2] : e \in { x \in ValidationErrors(candidate) :
                                     x[1] # "job_window" } }
                    = OffendingVehicles(candidate)
               /\ { e[2] : e \in { x \in ValidationErrors(candidate) :
                                     x[1] = "job_window" } }
                    = OffendingJobs(candidate) ]_vars

\* the first candidate had a zero-capacity vehicle: nothing was submitted
C16_Witness ==
  /\ pc = "threw"
  /\ submitCount = 0
  /\ submitted = Null
  /\ modifiedInput # Null
  /\ \E v \in 1..Len(modifiedInput.vehicles) : modifiedInput.vehicles[v].capacity = 0

(* ------------------------- claims C17 .. C20 --------------------------- *)

\* the addresses of the objects of the instance at root
Reachable(h, root) ==
  { root, h[root].vehicles, h[root].jobs, h[root].options,
    h[h[root].options].constraint }
  \cup Range(h[h[root].vehicles].items) \cup Range(h[h[root].jobs].items)

\* the value of the instance the last call returned
Returned == Stringify(heap, mResult)

\* the last call was fn with the single strategy of the given type
SingleCall(fn, type) ==
  /\ mCall # Null
  /\ mCall.fn = fn
  /\ Len(mCall.strategies) = 1
  /\ mCall.strategies[1].type = type

\* C17: after applyMultipleStrategies the instance it was given has the
\* value it had before the call, and the instance returned has no object in
\* common with it; the instance returned is the strategies applied in order.
C17_ApplyLeavesInputAlone ==
  ( mCall # Null /\ mCall.fn = "applyMultipleStrategies" )
  => ( /\ Stringify(heap, mInput) = mBefore
       /\ mResult # 0
          => ( /\ Reachable(heap, mInput) \cap Reachable(heap, mResult) = { }
               /\ mCall.variant = "softening"
                  => Returned = applyMultipleStrategies(mBefore, mCall.strategies) ) )

\* a second candidate was built from the first, with vehicles added, windows
\* widened and constraint fields set
C17_Witness ==
  /\ mPhase = "twice"
  /\ mCall.fn = "applyMultipleStrategies"
  /\ Len(mCall.strategies) >= 4
  /\ mResult # 0
  /\ Len(Returned.vehicles) > Len(mBefore.vehicles)
  /\ Returned.jobs # mBefore.jobs
  /\ Returned.options # mBefore.options
  /\ \E v \in 1..Len(mBefore.vehicles) : mBefore.vehicles[v].metadata # Null

\* the largest numeric vehicle id of an instance
MaxVehicleId(inst) ==
  CHOOSE m \in { parseInt(inst.vehicles[v].id) : v \in 1..Len(inst.vehicles) } :
    \A v \in 1..Len(inst.vehicles) : parseInt(inst.vehicles[v].id) <= m

DistinctVehicleIds(inst) ==
  \A v, w \in 1..Len(inst.vehicles) :
     v # w => inst.vehicles[v].id # inst.vehicles[w].id

\* C18: a vehicle_addition strategy applied to an instance with distinct
\* numeral ids appends count vehicles whose ids are the decimal numerals of
\* max+1 .. max+count, with the strategy's capacity and time window and the
\* load-balancing tag; the vehicles already there are unchanged and all ids
\* are pairwise distinct, also when the instance holds earlier additions.
C18_VehicleAdditionAppendsSequentialIds ==
  ( /\ SingleCall("modifyForLoadBalancing", "vehicle_addition")
    /\ DistinctVehicleIds(mBefore) )
  => LET strategy == mCall.strategies[1]
         old == mBefore.vehicles
         new == Returned.vehicles
     IN /\ mResult # 0
        /\ Len(new) = Len(old) + strategy.count
        /\ SubSeq(new, 1, Len(old)) = old
        /\ \A k \in 1..strategy.count :
             LET vehicle == new[Len(old) + k]
             IN /\ parseInt(vehicle.id) = MaxVehicleId(mBefore) + k
                /\ vehicle.id[1] # 0
                /\ vehicle.capacity = strategy.capacity
                /\ vehicle.time_window = strategy.timeWindow
                /\ vehicle.metadata # Null
                /\ vehicle.metadata.added_for_load_balancing
        /\ DistinctVehicleIds(Returned)
        /\ Returned.jobs = mBefore.jobs
        /\ Returned.options = mBefore.options

\* vehicles were added to an instance with sparse ids that already held
\* added vehicles
C18_Witness ==
  /\ SingleCall("modifyForLoadBalancing", "vehicle_addition")
  /\ mPhase = "twice"
  /\ mResult # 0
  /\ mCall.strategies[1].count >= 2
  /\ mBefore.vehicles[1].id = << 0, 3 >>
  /\ \E v \in 1..Len(mBefore.vehicles) : mBefore.vehicles[v].metadata # Null
  /\ MaxVehicleId(Returned) > 9

\* C19: a time_window_softening strategy of m minutes leaves the vehicles
\* and the jobs (their windows included) and the objective unchanged and
\* writes two constraint fields only: max_vehicle_overtime = 60 m and
\* max_visit_lateness = min(60 m, 1800).
C19_SofteningSetsTwoConstraintFields ==
  SingleCall("modifyForLoadBalancing", "time_window_softening")
  => LET m == mCall.strategies[1].relaxationMinutes
         old == mBefore.options.constraint
         new == Returned.options.constraint
     IN /\ mResult # 0
        /\ Returned.vehicles = mBefore.vehicles
        /\ Returned.jobs = mBefore.jobs
        /\ Returned.options.objective = mBefore.options.objective
        /\ new.max_vehicle_overtime = m * 60
        /\ new.max_visit_lateness = ( IF m * 60 < 30 * 60 THEN m * 60 ELSE 30 * 60 )
        /\ new.min_load_per_route = old.min_load_per_route
        /\ new.load_balance_weight = old.load_balance_weight

\* a softening of 15 minutes (below the cap) replaced an earlier softening
C19_Witness ==
  /\ SingleCall("modifyForLoadBalancing", "time_window_softening")
  /\ mCall.strategies[1].relaxationMinutes = 15
  /\ mResult # 0
  /\ mBefore.options.constraint.max_visit_lateness = 30 * 60
  /\ Returned.options.constraint.max_visit_lateness = 15 * 60

\* C20: a constraint_addition strategy applied through applyMultipleStrategies
\* returns an instance whose constraint map has min_load_per_route = the
\* strategy's minLoadPerRoute and load_balance_weight = the strategy's
\* weight, everything else unchanged.
C20_LoadConstraintAdditionSetsBothFields ==
  SingleCall("applyMultipleStrategies", "constraint_addition")
  => LET strategy == mCall.strategies[1]
         old == mBefore.options.constraint
         new == Returned.options.constraint
     IN /\ mResult # 0
        /\ new.min_load_per_route = strategy.minLoadPerRoute
        /\ new.load_balance_weight = strategy.loadBalanceWeight
        /\ new.max_vehicle_overtime = old.max_vehicle_overtime
        /\ new.max_visit_lateness = old.max_visit_lateness
        /\ Returned.vehicles = mBefore.vehicles
        /\ Returned.jobs = mBefore.jobs
        /\ Returned.options.objective = mBefore.options.objective

(* ------------------- the web client and the Oracle --------------------- *)

\* the HTTP status of the Oracle's answer to a POST; 0 stands for a fetch
\* that rejects (no answer)
PostStatuses == { 200, 400, 500, 0 }

\* the routes of a result, as the web client reads them: a route carries its
\* delivery and pickup totals
ResultRoute(load) == [ delivery |-> << load >>, pickup |-> << 0 >> ]

\* the results the modelled Oracle returns: every route at the target, or one
\* of two below it
ResultRoutes ==
  { << ResultRoute(HighLoad) >>, << ResultRoute(LowLoad), ResultRoute(HighLoad) >> }

\* the body of a 200 answer: the routes, or only a request id to poll with
PostBodies == { "routes", "accepted" }

\* the answer to a status GET: ok is false for a GET that fails
PollAnswer(ok, status, message, routes) ==
  [ ok |-> ok, status |-> status, message |-> message, routes |-> routes ]

\* what a status poll finds: the job is still processing, the result with its
\* routes, a job that ended in Error (without a message, or with the Oracle's
\* own message), a job that was cancelled, or a GET that fails
PollAnswers ==
  { PollAnswer(TRUE, "", "Job still processing", << >>),
    PollAnswer(TRUE, "Error", "", << >>),
    PollAnswer(TRUE, "Error", "No feasible solution", << >>),
    PollAnswer(TRUE, "Cancelled", "", << >>),
    PollAnswer(FALSE, "", "", << >>) }
  \cup { PollAnswer(TRUE, "Ok", "", routes) : routes \in ResultRoutes }

\* error.message.includes('Optimization failed'), over the messages of the
\* errors the polling loop can catch: those of PollAnswers, the default
\* message, and 'Result retrieval failed ...' of a GET that fails
MentionsOptimizationFailed(message) == message = "Optimization failed"

\* what a pass of the polling loop does with the answer: "return" it, "throw"
\* out of the loop, or sleep and "continue"; an error thrown in the try block
\* is rethrown by the catch block only when its message says so
PollOutcome(answer) ==
  IF ~ answer.ok
  THEN IF MentionsOptimizationFailed("Result retrieval failed")
       THEN "throw" ELSE "continue"
  ELSE IF answer.message = "Job still processing" THEN "continue"
  ELSE IF answer.status \in { "In Progress", "Processing" } THEN "continue"
  ELSE IF answer.status \in { "Error", "Failed" }
  THEN IF MentionsOptimizationFailed(IF answer.message # "" THEN answer.message
                                     ELSE "Optimization failed")
       THEN "throw" ELSE "continue"
  ELSE IF Len(answer.routes) > 0 THEN "return"
  ELSE "continue"

\* the input file uploaded to the page
UploadedInput == Instance(14000)

\* the parameters of the page: its defaults but for an easing of 45 minutes,
\* which the cap of the first iteration cuts to 30, and the iteration count
ClientParams ==
  { [ timeWindowEasing |-> 45, shiftTimeAdjustments |-> 15,
      numberOfIterations |-> MaxClientIterations, loadTargets |-> DefaultLoadTargets ] }

Max(a, b) == IF a > b THEN a ELSE b

\* the parameters of iteration iter: the objective and the caps on the easing
\* and on the shift depend on the iteration number alone (beyond 4 they cycle
\* through strategies[(iter - 1) % 4]); after the second iteration the load
\* target is max(loadTargets * 0.9, loadTargets - 2000), the product being
\* exact for the targets modelled (multiples of 10 up to 20000)
applyIterativeRefinement(userParams, iter) ==
  LET tasks == [ travel_cost |-> "distance",
                 custom |-> [type |-> "min-max", value |-> "tasks"] ]
      vehicles == [ travel_cost |-> "distance",
                    custom |-> [type |-> "min", value |-> "vehicles"] ]
      duration == [ travel_cost |-> "duration", custom |-> Null ]
      cap == << 30, 60, 90, 120 >>[((iter - 1) % 4) + 1]
  IN [ userParams EXCEPT
         !.timeWindowEasing = Min(userParams.timeWindowEasing, cap),
         !.shiftTimeAdjustments = Min(userParams.shiftTimeAdjustments, cap),
         !.loadTargets = IF iter > 2
                         THEN Max((userParams.loadTargets * 9) \div 10,
                                  userParams.loadTargets - 2000)
                         ELSE userParams.loadTargets ]
     @@ [ objective |->
            IF iter <= 4 THEN << tasks, duration, tasks, vehicles >>[iter]
            ELSE << tasks, duration, vehicles, tasks >>[((iter - 1) % 4) + 1] ]

\* the request payload runSingleIteration builds: the parsed input file with
\* the refined parameters in its options, the vehicles' windows widened by the
\* shift, the jobs' by the easing, and the softening constraints of the easing
buildRequestPayload(inputData, refinedParams, iter) ==
  LET shiftSeconds == refinedParams.shiftTimeAdjustments * 60
      easingSeconds == refinedParams.timeWindowEasing * 60
      widen(window, by) == << window[1] - by, window[2] + by >>
      constraint ==
        IF refinedParams.timeWindowEasing > 0
        THEN [ inputData.options.constraint EXCEPT
                 !.max_vehicle_overtime = easingSeconds,
                 !.max_visit_lateness = Min(easingSeconds, LatenessCap) ]
        ELSE inputData.options.constraint
  IN [ vehicles |->
         IF refinedParams.shiftTimeAdjustments > 0
         THEN [v \in 1..Len(inputData.vehicles) |->
                 [ inputData.vehicles[v] EXCEPT
                     !.time_window = widen(@, shiftSeconds) ]]
         ELSE inputData.vehicles,
       jobs |->
         IF refinedParams.timeWindowEasing > 0
         THEN [j \in 1..Len(inputData.jobs) |->
                 [ inputData.jobs[j] EXCEPT
                     !.time_windows =
                        [n \in 1..Len(@) |-> widen(@[n], easingSeconds)] ]]
         ELSE inputData.jobs,
       options |->
         [ objective |-> refinedParams.objective,
           constraint |-> constraint,
           time_window_easing |-> refinedParams.timeWindowEasing,
           shift_time_adjustments |-> refinedParams.shiftTimeAdjustments,
           load_targets |-> refinedParams.loadTargets,
           iteration |-> iter ] ]

\* ROIRIntegration.calculateRouteLoad: delivery[0] + pickup[0]
routeLoadOfSummary(route) == route.delivery[1] + route.pickup[1]

\* Math.round(num / den) for num >= 0, den > 0
Round(num, den) == (2 * num + den) \div (2 * den)

\* the OptimizationResult of an iteration whose Oracle result has the routes
\* routeData: the compliance is the rounded share of the routes at or above
\* the refined load target
iterationResult(routeData, refinedParams, iter) ==
  LET routesAboveTarget ==
        Len(SelectSeq(routeData,
                      LAMBDA route : routeLoadOfSummary(route) >= refinedParams.loadTargets))
      totalRoutes == Len(routeData)
  IN [ iteration |-> iter,
       compliance |-> IF totalRoutes > 0
                      THEN Round(routesAboveTarget * 100, totalRoutes)
                      ELSE 0,
       routes |-> totalRoutes ]

\* the times the modelled Oracle takes to answer, in ms
Latencies == { 100, 1500 }

\* Date.now() when the client starts
StartTime == 100000

\* the bookkeeping of a request sent to the Oracle at time at
Sent(kind, at) ==
  LET call == [kind |-> kind, at |-> at, iteration |-> clientIteration]
  IN IF oracleCalls = << >> THEN << call >>
     ELSE << oracleCalls[Len(oracleCalls)], call >>

\* delayMs *= 2
Backoff_Constant(delay) == delay

Backoff(delay) == delay * 2

ClientInit ==
  /\ pc = "off"
  /\ parsedInput = Null
  /\ parsedSolution = Null
  /\ currentInput = Null
  /\ currentSolution = Null
  /\ iteration = 0
  /\ successfulIteration = 0
  /\ lastSuccessfulInput = Null
  /\ lastSuccessfulSolution = Null
  /\ modifiedInput = Null
  /\ relaxedInput = Null
  /\ submitted = Null
  /\ submitCount = 0
  /\ optimizationResult = Null
  /\ iterationHistory = << >>
  /\ bestSolution = Null
  /\ totalAttempts = 0
  /\ warnedMax = FALSE
  /\ report = Null
  /\ heap = << >>
  /\ mInput = 0
  /\ mBefore = Null
  /\ mResult = 0
  /\ mCall = Null
  /\ mPhase = "off"
  /\ mScenario = Null
  /\ aSolution = Null
  /\ aIndex = 0
  /\ aAnalysis = Null
  /\ aStrategies = << >>
  /\ aRelaxed = << >>
  /\ aCheck = Null
  /\ clientPc = "idle"
  /\ now = StartTime
  /\ lastApiCall = 0
  /\ maxRetries \in 1..MaxRetriesConfigured
  /\ clientIteration = 1
  /\ attempt = 0
  /\ delayMs = 0
  /\ attemptLog = << >>
  /\ submission = Null
  /\ pollCount = 0
  /\ pollStart = 0
  /\ oracleCalls = << >>
  /\ latency \in Latencies
  /\ params \in ClientParams
  /\ requestPayload = Null
  /\ results = << >>
  /\ lastPoll = Null
  /\ waitPc = "off"
  /\ waitNow = 0
  /\ waitStart = 0
  /\ waitPollCount = 0
  /\ statusResponse = Null
  /\ lastStatusCheck = 0
  /\ waitError = ""
  /\ waitLatency = 0

\* runSingleIteration up to the call of makeApiCallWithRetry: the rate gate
\* waits until minCallInterval has passed since the last pass and notes the
\* time of this one
RateLimit ==
  /\ clientPc = "idle"
  /\ LET timeSinceLastCall == now - lastApiCall
         passed == IF timeSinceLastCall < minCallInterval
                   THEN now + (minCallInterval - timeSinceLastCall)
                   ELSE now
     IN /\ now' = passed
        /\ lastApiCall' = passed
  /\ attempt' = 1
  /\ delayMs' = retryDelayMs
  /\ attemptLog' = << >>
  /\ submission' = Null
  /\ requestPayload' =
       buildRequestPayload(UploadedInput,
                           applyIterativeRefinement(params, clientIteration),
                           clientIteration)
  /\ clientPc' = "submit"
  /\ UNCHANGED << cvars, mvars, avars, wvars, maxRetries, clientIteration, pollCount,
                  pollStart, oracleCalls, latency, params, results, lastPoll >>

\* the iteration is over: the next one starts, or runOptimization returns
IterationDone(routeData) ==
  /\ results' =
       Append(results,
              iterationResult(routeData,
                              applyIterativeRefinement(params, clientIteration),
                              clientIteration))
  /\ clientIteration' = clientIteration + 1
  /\ clientPc' = IF clientIteration < params.numberOfIterations
                 THEN "idle" ELSE "done"

\* one pass of the loop of makeApiCallWithRetry: the POST, the answer, and
\* what the pass does with it; an error thrown inside the try block, the one
\* for a 4xx answer included, lands in the catch block of the same pass
Attempt ==
  /\ clientPc = "submit"
  /\ \E status \in PostStatuses, body \in PostBodies :
       LET answered == now + latency
           ok == status = 200
           \* 4xx: thrown in the try block, caught, retried like the others
           retries == ~ ok /\ attempt < maxRetries
       IN /\ oracleCalls' = Sent("submit", now)
          /\ IF ok
             THEN /\ attemptLog' = Append(attemptLog, [status |-> status, wait |-> 0])
                  /\ submission' = [outcome |-> "returned", body |-> body]
                  /\ now' = answered
                  /\ UNCHANGED << attempt, delayMs >>
                  /\ IF body = "routes"
                     THEN /\ \E routes \in ResultRoutes : IterationDone(routes)
                          /\ UNCHANGED << pollCount, pollStart, lastPoll >>
                     ELSE /\ clientPc' = "poll"
                          /\ pollCount' = 0
                          /\ pollStart' = answered
                          /\ lastPoll' = Null
                          /\ UNCHANGED << clientIteration, results >>
             ELSE IF retries
             THEN /\ attemptLog' = Append(attemptLog,
                                          [status |-> status, wait |-> delayMs])
                  /\ now' = answered + delayMs
                  /\ delayMs' = Backoff(delayMs)
                  /\ attempt' = attempt + 1
                  /\ UNCHANGED << submission, clientPc, clientIteration, pollCount,
                                  pollStart, results, lastPoll >>
             ELSE /\ attemptLog' = Append(attemptLog, [status |-> status, wait |-> 0])
                  /\ submission' = [outcome |-> "raised", error |-> status]
                  /\ now' = answered
                  /\ clientPc' = "done"
                  /\ UNCHANGED << attempt, delayMs, clientIteration, pollCount,
                                  pollStart, results, lastPoll >>
  /\ UNCHANGED << cvars, mvars, avars, wvars, lastApiCall, maxRetries, latency, params,
                  requestPayload >>

\* one pass of the loop of waitForOptimization: the GET and what the pass
\* does with the answer; once the wait is over it throws the timeout
Poll ==
  /\ clientPc = "poll"
  /\ IF now - pollStart < maxWaitTime
     THEN \E answer \in PollAnswers :
            /\ PollOutcome(answer) = "continue" => pollCount < MaxPolls
            /\ oracleCalls' = Sent("poll", now)
            /\ pollCount' = pollCount + 1
            /\ lastPoll' = answer
            /\ IF PollOutcome(answer) = "return"
               THEN /\ now' = now + latency
                    /\ IterationDone(answer.routes)
               ELSE IF PollOutcome(answer) = "throw"
               THEN /\ now' = now + latency
                    /\ clientPc' = "done"
                    /\ UNCHANGED << clientIteration, results >>
               ELSE /\ now' = now + latency + checkInterval
                    /\ UNCHANGED << clientPc, clientIteration, results >>
     ELSE /\ clientPc' = "done"
          /\ UNCHANGED << now, pollCount, clientIteration, oracleCalls, results,
                          lastPoll >>
  /\ UNCHANGED << cvars, mvars, avars, wvars, lastApiCall, maxRetries, attempt, delayMs,
                  attemptLog, submission, pollStart, latency, params,
                  requestPayload >>

ClientNext == RateLimit \/ Attempt \/ Poll

ClientSpec == ClientInit /\ [][ClientNext]_vars

(* ------------- NextBillionClient.waitForOptimization, timed ------------ *)

\* what the Oracle answers to a status GET: one of the statuses of a job,
\* "Cancelled" included, or nothing ("unavailable": the GET fails)
StatusAnswers == { "processing", "Ok", "Error", "Cancelled", "unavailable" }

\* the object getOptimizationStatus resolves to: a GET that fails is caught
\* and reported with success false and status 'unknown'
statusResponseOf(answer) ==
  IF answer = "unavailable"
  THEN [ success |-> FALSE, status |-> "unknown" ]
  ELSE [ success |-> TRUE, status |-> getOptimizationStatus(answer) ]

WaitInit ==
  /\ pc = "off"
  /\ parsedInput = Null
  /\ parsedSolution = Null
  /\ currentInput = Null
  /\ currentSolution = Null
  /\ iteration = 0
  /\ successfulIteration = 0
  /\ lastSuccessfulInput = Null
  /\ lastSuccessfulSolution = Null
  /\ modifiedInput = Null
  /\ relaxedInput = Null
  /\ submitted = Null
  /\ submitCount = 0
  /\ optimizationResult = Null
  /\ iterationHistory = << >>
  /\ bestSolution = Null
  /\ totalAttempts = 0
  /\ warnedMax = FALSE
  /\ report = Null
  /\ heap = << >>
  /\ mInput = 0
  /\ mBefore = Null
  /\ mResult = 0
  /\ mCall = Null
  /\ mPhase = "off"
  /\ mScenario = Null
  /\ aSolution = Null
  /\ aIndex = 0
  /\ aAnalysis = Null
  /\ aStrategies = << >>
  /\ aRelaxed = << >>
  /\ aCheck = Null
  /\ clientPc = "off"
  /\ now = 0
  /\ lastApiCall = 0
  /\ maxRetries = 0
  /\ clientIteration = 0
  /\ attempt = 0
  /\ delayMs = 0
  /\ attemptLog = << >>
  /\ submission = Null
  /\ pollCount = 0
  /\ pollStart = 0
  /\ oracleCalls = << >>
  /\ latency = 0
  /\ params = Null
  /\ requestPayload = Null
  /\ results = << >>
  /\ lastPoll = Null
  /\ waitPc = "polling"
  /\ waitNow = StartTime
  /\ waitStart = StartTime
  /\ waitPollCount = 0
  /\ statusResponse = Null
  /\ lastStatusCheck = 0
  /\ waitError = ""
  /\ waitLatency \in Latencies

\* one pass of the loop: the status request, and what the pass does with the
\* answer; the pass ends the wait or sleeps checkInterval
WaitPoll ==
  /\ waitPc = "polling"
  /\ waitNow - waitStart < maxWaitTime
  /\ \E answer \in StatusAnswers :
       LET response == statusResponseOf(answer)
           answered == waitNow + waitLatency
       IN /\ waitPollCount' = waitPollCount + 1
          /\ lastStatusCheck' = waitNow
          /\ statusResponse' = response
          /\ IF ~ response.success
             THEN /\ waitPc' = "threw"
                  /\ waitError' = "Failed to check status"
                  /\ waitNow' = answered
             ELSE IF response.status = "completed"
             THEN /\ waitPc' = "returned"
                  /\ waitNow' = answered
                  /\ UNCHANGED waitError
             ELSE IF response.status = "failed"
             THEN /\ waitPc' = "threw"
                  /\ waitError' = "Optimization failed"
                  /\ waitNow' = answered
             ELSE IF response.status = "processing"
             THEN /\ waitNow' = answered + checkInterval
                  /\ UNCHANGED << waitPc, waitError >>
             ELSE IF response.status = "cancelled"
             THEN /\ waitPc' = "threw"
                  /\ waitError' = "Optimization was cancelled"
                  /\ waitNow' = answered
             ELSE /\ waitNow' = answered + checkInterval
                  /\ UNCHANGED << waitPc, waitError >>
  /\ UNCHANGED << cvars, mvars, avars, ivars, waitStart, waitLatency >>

\* the loop condition fails: the wait is over
WaitTimeout ==
  /\ waitPc = "polling"
  /\ ~ (waitNow - waitStart < maxWaitTime)
  /\ waitPc' = "threw"
  /\ waitError' = "Optimization timeout"
  /\ UNCHANGED << cvars, mvars, avars, ivars, waitNow, waitStart, waitPollCount,
                  statusResponse, lastStatusCheck, waitLatency >>

WaitNext == WaitPoll \/ WaitTimeout

WaitSpec == WaitInit /\ [][WaitNext]_vars

\* the loop runs on the event loop: a pass that can be taken is taken (the
\* status request resolves or rejects, the sleep timer fires)
FairWaitSpec == WaitInit /\ [][WaitNext]_vars /\ WF_vars(WaitNext)

(* ====================== claims C21 .. C27 (AnalyzerSpec) ================ *)

\* the strategies of one type in a generated list
OfType(strategies, type) == SelectSeq(strategies, LAMBDA st : st.type = type)

\* the compliance rate of the analysis the generators were given
Rate == aAnalysis.summary.complianceRate

\* the mutator maps an objective name when modifyObjective rewrites the
\* objective of an instance for it
Mapped(name) ==
  modifyObjective(Instance(HighLoad), [type |-> "objective_modification",
                                       objective |-> name])
    # Instance(HighLoad)

\* C21: the normal generator emits objective changes by compliance band:
\* below 30 exactly one, with element (i mod 3) of (balance-tasks,
\* minimize-vehicles-with-load-constraint, minimize-duration); from 30 up to
\* but not including 50 exactly one, with balance-tasks; from 50 on none; and
\* every objective name emitted is one modifyObjective maps.
C21_ObjectiveChangeByComplianceBand ==
  aStrategies # << >> =>
    LET changes == OfType(aStrategies, "objective_modification")
        cycle == << "maximize_load_balance",
                    "minimize_vehicles_with_load_constraint",
                    "minimize_duration" >>
    IN /\ FracLT(Rate, Frac(30, 1)) =>
            /\ Len(changes) = 1
            /\ changes[1].objective = cycle[(aIndex % 3) + 1]
       /\ (~ FracLT(Rate, Frac(30, 1)) /\ FracLT(Rate, Frac(50, 1))) =>
            /\ Len(changes) = 1
            /\ changes[1].objective = "maximize_load_balance"
       /\ ~ FracLT(Rate, Frac(50, 1)) => Len(changes) = 0
       /\ \A k \in 1..Len(changes) : Mapped(changes[k].objective)

\* one route in three at the target (33 %): the middle band, at an index
\* whose element of the cycle is not balance-tasks
C21_Witness ==
  /\ aStrategies # << >>
  /\ ~ FracLT(Rate, Frac(30, 1))
  /\ FracLT(Rate, Frac(50, 1))
  /\ aIndex % 3 = 2
  /\ Len(OfType(aStrategies, "objective_modification")) = 1

\* C22: the normal generator emits a vehicle addition exactly when the
\* below-target routes are more than half the at/above-target routes; its
\* count is min(ceil(totalLoadGap / referenceCapacity) + (i mod 3), 15), its
\* capacity element (i mod 5) of (14000, 12000, 16000, 10000, 18000), its
\* priority medium.
C22_VehicleAdditionWhenBelowExceedsHalfAbove ==
  aStrategies # << >> =>
    LET adds == OfType(aStrategies, "vehicle_addition")
        below == Len(aAnalysis.routesBelowTarget)
        above == Len(aAnalysis.routesAboveTarget)
        cycle == << 14000, 12000, 16000, 10000, 18000 >>
    IN /\ Len(adds) = (IF 2 * below > above THEN 1 ELSE 0)
       /\ \A k \in 1..Len(adds) :
            /\ adds[k].count =
                 Min(CeilDiv(aAnalysis.summary.totalLoadGap, referenceCapacity)
                       + (aIndex % 3), MaxAddedVehicles)
            /\ adds[k].capacity = cycle[(aIndex % 5) + 1]
            /\ adds[k].priority = "medium"

\* a vehicle addition whose count the cap of 15 cut down, at an index where
\* the capacity cycle has started again
C22_Witness ==
  /\ aStrategies # << >>
  /\ aIndex = 5
  /\ Len(OfType(aStrategies, "vehicle_addition")) = 1
  /\ OfType(aStrategies, "vehicle_addition")[1].count = MaxAddedVehicles
  /\ CeilDiv(aAnalysis.summary.totalLoadGap, referenceCapacity) + (aIndex % 3)
       > MaxAddedVehicles

\* a strategy without its iteration tag
Untagged(st) == [f \in DOMAIN st \ {"iteration"} |-> st[f]]

\* C23 as stated: the relaxed generator returns the same list for every
\* index, no field of any strategy depends on i.
C23_RelaxedListSameForEveryIndex ==
  aRelaxed # << >> =>
    \A i \in 0..MaxIndex :
       createRelaxedLoadBalancingStrategy(aAnalysis, i, 0) = aRelaxed

\* C23: the relaxed generator returns, for every index i, the four strategies
\* softening(120, high), vehicle addition(count min(ceil(gap / 8000) + 5, 15),
\* capacity 10000, high), relaxation(60, medium), objective change(minimize
\* vehicles with load constraint, medium), in this order; the one field that
\* depends on i is the iteration tag of the vehicle addition, which is i.
C23_RelaxedListFixedButForIterationTag ==
  aRelaxed # << >> =>
    /\ Len(aRelaxed) = 4
    /\ aRelaxed[1] = [ type |-> "time_window_softening", relaxationMinutes |-> 120,
                       priority |-> "high" ]
    /\ Untagged(aRelaxed[2]) =
         [ type |-> "vehicle_addition",
           count |-> Min(CeilDiv(aAnalysis.summary.totalLoadGap,
                                 relaxedReferenceCapacity) + 5, MaxAddedVehicles),
           capacity |-> 10000,
           timeWindow |-> << TwStart, TwEnd >>,
           priority |-> "high" ]
    /\ aRelaxed[2].iteration = aIndex
    /\ aRelaxed[3] = [ type |-> "time_window_relaxation", relaxationMinutes |-> 60,
                       priority |-> "medium" ]
    /\ aRelaxed[4] = [ type |-> "objective_modification",
                       objective |-> "minimize_vehicles_with_load_constraint",
                       priority |-> "medium" ]
    /\ \A i \in 0..MaxIndex :
         LET other == createRelaxedLoadBalancingStrategy(aAnalysis, i, 0)
         IN /\ Len(other) = 4
            /\ \A k \in 1..4 : Untagged(other[k]) = Untagged(aRelaxed[k])
            /\ other[2].iteration = i

\* a relaxed list for a load gap that is not a multiple of 8000, at an index
\* other than the first
C23_Witness ==
  /\ aRelaxed # << >>
  /\ aIndex = 3
  /\ aAnalysis.summary.totalLoadGap % relaxedReferenceCapacity # 0
  /\ aRelaxed[2].count < MaxAddedVehicles

\* C24: for a solution without routes the checker answers passed = false,
\* exactly one violation, of severity critical, and no warning, whatever
\* constraints were asked for (none included); no constraint is evaluated.
C24_NoRoutesIsOneCriticalViolation ==
  (aCheck # Null /\ Len(aSolution.routes) = 0) =>
    /\ aCheck.result.passed = FALSE
    /\ Len(aCheck.result.violations) = 1
    /\ aCheck.result.violations[1].severity = "critical"
    /\ aCheck.result.warnings = << >>

\* the checker was asked for nothing about a solution without routes
C24_Witness ==
  /\ aCheck # Null
  /\ Len(aSolution.routes) = 0
  /\ ~ Requested(aCheck.constraints, "minLoadPerRoute")
  /\ ~ Requested(aCheck.constraints, "maxLoadPerRoute")
  /\ ~ Requested(aCheck.constraints, "maxRoutes")

\* C25 as stated: the compliance rate of every analysis lies in [0, 100] and
\* is 100 exactly when no route is below the target.
C25_ComplianceRateBoundedAndFullIffNoneBelow ==
  aAnalysis # Null =>
    /\ ~ FracLT(Rate, Frac(0, 1))
    /\ ~ FracGT(Rate, Frac(100, 1))
    /\ FracEq(Rate, Frac(100, 1)) <=> (aAnalysis.routesBelowTarget = << >>)

\* C26 as stated: the analysis of a solution without routes carries no
\* compliance rate, and the generator takes no decision from a rate of 0 for
\* it.
C26_NoComplianceRateForZeroRoutes ==
  (aAnalysis # Null /\ Len(aSolution.routes) = 0) =>
    /\ "complianceRate" \notin DOMAIN aAnalysis.summary
    /\ OfType(aStrategies, "objective_modification") = << >>

\* the load amounts of the job steps of a route, added up step by step
RECURSIVE JobLoad(_)
JobLoad(steps) ==
  IF steps = << >> THEN 0
  ELSE JobLoad(Tail(steps))
         + (IF Head(steps).type = "job" /\ "load" \in DOMAIN Head(steps)
            THEN Head(steps).load ELSE 0)

\* the loads of the routes of the analysed solution, in order
Loads == [i \in 1..Len(aSolution.routes) |-> JobLoad(aSolution.routes[i].steps)]

\* C27: a route's load is the sum of the loads of its job steps (0 without
\* any); the routes below the target and those at or above it partition the
\* solution; each route below has the gap target - load, which is positive;
\* totalLoadGap is the sum of the gaps; the compliance rate is the share of
\* the routes at or above the target, times 100; loads (14000, 9000) with
\* target 12000 give the second route below, a gap of 3000 and a rate of 50.
C27_PartitionGapsAndRate ==
  aAnalysis # Null =>
    LET routes == aSolution.routes
        belowIx == { i \in 1..Len(routes) : Loads[i] < minLoad }
        aboveIx == { i \in 1..Len(routes) : Loads[i] >= minLoad }
        gaps == aAnalysis.loadGaps
    IN /\ aAnalysis.routesBelowTarget
            = SelectSeq(routes, LAMBDA r : JobLoad(r.steps) < minLoad)
       /\ aAnalysis.routesAboveTarget
            = SelectSeq(routes, LAMBDA r : JobLoad(r.steps) >= minLoad)
       /\ Len(aAnalysis.routesBelowTarget) = Cardinality(belowIx)
       /\ Len(aAnalysis.routesAboveTarget) = Cardinality(aboveIx)
       /\ Len(gaps) = Len(aAnalysis.routesBelowTarget)
       /\ \A k \in 1..Len(gaps) :
            /\ gaps[k].vehicleId = aAnalysis.routesBelowTarget[k].vehicle
            /\ gaps[k].currentLoad = Loads[gaps[k].vehicleId]
            /\ gaps[k].gap = minLoad - gaps[k].currentLoad
            /\ gaps[k].gap > 0
       /\ aAnalysis.summary.totalLoadGap
            = SeqSum([k \in 1..Len(gaps) |-> minLoad - Loads[gaps[k].vehicleId]])
       /\ Len(routes) > 0 =>
            FracEq(Rate, Frac(Cardinality(aboveIx) * 100, Len(routes)))
       /\ (Loads = << 14000, 9000 >> /\ minLoad = 12000) =>
            /\ aAnalysis.routesBelowTarget = << routes[2] >>
            /\ gaps = << [ vehicleId |-> 2, currentLoad |-> 9000,
                           targetLoad |-> 12000, gap |-> 3000 ] >>
            /\ aAnalysis.summary.totalLoadGap = 3000
            /\ FracEq(Rate, Frac(50, 1))

\* the analysis of the solution whose routes carry 14000 and 9000, the first
\* on a vehicle whose start step carries a load of its own
C27_Witness ==
  /\ aAnalysis # Null
  /\ Loads = << HighLoad, LowLoad >>
  /\ aSolution.routes[1].steps[1].load > 0
  /\ Len(aAnalysis.loadGaps) = 1

(* ====================== claims C28 .. C30 (ClientSpec) ================== *)

\* the answer is an HTTP client error
ClientError(status) == status >= 400 /\ status < 500

\* 2^n
RECURSIVE Pow2(_)
Pow2(n) == IF n = 0 THEN 1 ELSE 2 * Pow2(n - 1)

\* C28 as stated: a submission the Oracle rejects with a 4xx status is not
\* retried: the attempt that got it is the last one, no backoff wait follows
\* it, and makeApiCallWithRetry fails at once.
C28_ClientErrorIsNotRetried ==
  \A k \in 1..Len(attemptLog) :
     ClientError(attemptLog[k].status) =>
       /\ k = 1
       /\ Len(attemptLog) = 1
       /\ attemptLog[k].wait = 0
       /\ submission # Null
       /\ submission.outcome = "raised"

\* C29: for network and 5xx failures makeApiCallWithRetry makes at most
\* maxRetries attempts; the wait before the k-th retry is
\* retryDelayMs * 2^(k-1); it returns as soon as an attempt succeeds; after the
\* last failed attempt it raises that attempt's error without waiting again.
C29_BoundedAttemptsExponentialBackoff ==
  /\ Len(attemptLog) <= maxRetries
  /\ \A k \in 1..Len(attemptLog) :
       LET status == attemptLog[k].status
           last == k = Len(attemptLog)
       IN /\ status = 200 =>
               /\ last
               /\ attemptLog[k].wait = 0
               /\ submission # Null
               /\ submission.outcome = "returned"
          /\ (status = 0 \/ status >= 500) =>
               IF k < maxRetries
               THEN /\ attemptLog[k].wait = retryDelayMs * Pow2(k - 1)
                    /\ last => (submission = Null /\ attempt = k + 1)
               ELSE /\ last
                    /\ attemptLog[k].wait = 0
                    /\ submission # Null
                    /\ submission.outcome = "raised"
                    /\ submission.error = status

\* a server error and a failed fetch, each followed by its wait, then an
\* answer on the last attempt allowed
C29_Witness ==
  /\ maxRetries = 3
  /\ Len(attemptLog) = 3
  /\ attemptLog[1] = [status |-> 500, wait |-> retryDelayMs]
  /\ attemptLog[2] = [status |-> 0, wait |-> 2 * retryDelayMs]
  /\ attemptLog[3].status = 200
  /\ submission # Null
  /\ submission.outcome = "returned"

\* C30 as stated: two consecutive requests to the Oracle (submissions,
\* retries, status polls) are at least minCallInterval apart.
C30_OracleCallsAreSpaced ==
  Len(oracleCalls) = 2 =>
    oracleCalls[2].at - oracleCalls[1].at >= minCallInterval

(* ========================= claims C35, C37 .. C39 (Spec) ================ *)

\* C35: iterationHistory only grows by appending: a record, once appended, is
\* never changed or removed; at most one record is appended per iteration
\* index; the indices of the records are strictly increasing; every recorded
\* solution has at least one route; there are never more records than
\* iteration indices attempted.
C35_HistoryIsAppendOnly ==
  /\ [][ /\ Len(iterationHistory') >= Len(iterationHistory)
         /\ Len(iterationHistory') <= Len(iterationHistory) + 1
         /\ SubSeq(iterationHistory', 1, Len(iterationHistory)) = iterationHistory
         /\ Len(iterationHistory') = Len(iterationHistory) + 1
              => /\ iterationHistory'[Len(iterationHistory')].iteration = iteration
                 /\ iteration' = iteration + 1 ]_vars
  /\ [] ( /\ \A k, l \in 1..Len(iterationHistory) :
               k < l => iterationHistory[k].iteration < iterationHistory[l].iteration
          /\ \A k \in 1..Len(iterationHistory) :
               /\ Len(iterationHistory[k].solution.routes) >= 1
               /\ iterationHistory[k].iteration >= 1
               /\ iterationHistory[k].iteration <= iteration
          /\ Len(iterationHistory) <= totalAttempts
          /\ totalAttempts <= iteration )

\* three records, of the iterations 1, 2 and 3
C35_Witness ==
  /\ Len(iterationHistory) = 3
  /\ iterationHistory[3].iteration = 3
  /\ iterationHistory[1].solution # iterationHistory[2].solution

\* C37: at the head of every pass of the loop the working pair is the last
\* successful pair, and the revert of the degenerate path changes neither the
\* working input nor the working solution.
C37_WorkingPairIsLastSuccessfulPair ==
  /\ [] ( pc = "loopHead" =>
            /\ currentInput = lastSuccessfulInput
            /\ currentSolution = lastSuccessfulSolution )
  /\ [][ (pc = "gotNormal" /\ pc' \in { "awaitRelaxed", "threw" })
         => /\ currentInput' = currentInput
            /\ currentSolution' = currentSolution ]_vars

\* the revert was made, at the second index, and the relaxed attempt is out
C37_Witness ==
  /\ pc = "awaitRelaxed"
  /\ iteration = 2
  /\ currentInput = lastSuccessfulInput
  /\ currentInput # parsedInput.data

\* C38: bestSolution is absent or the solution of a record of
\* iterationHistory; the initial solution is never taken as the best one, so
\* once a record exists one of the recorded solutions is the best, also when
\* all of them comply less than the initial solution.
C38_BestIsARecordedSolution ==
  pc # "off" =>
    /\ bestSolution # Null =>
         \E k \in 1..Len(iterationHistory) : iterationHistory[k].solution = bestSolution
    /\ Len(iterationHistory) >= 1 => bestSolution # Null

\* the best solution is a recorded one that complies less than the initial
\* solution
C38_Witness ==
  /\ pc = "loopHead"
  /\ bestSolution # Null
  /\ FracLT(analyzeLoadDistribution(bestSolution, minLoad).summary.complianceRate,
            initialAnalysis.summary.complianceRate)

\* C39: every instance the controller submits, for a normal or a relaxed
\* attempt, carries both softening constraints, with max_visit_lateness =
\* min(max_vehicle_overtime, 1800), so at most 1800 seconds.
C39_SubmittedInstancesAreSoftened ==
  submitted # Null =>
    LET constraint == submitted.options.constraint
    IN /\ constraint.max_vehicle_overtime # Unset
       /\ constraint.max_vehicle_overtime > 0
       /\ constraint.max_visit_lateness # Unset
       /\ constraint.max_visit_lateness
            = Min(constraint.max_vehicle_overtime, LatenessCap)
       /\ constraint.max_visit_lateness <= 1800

\* a relaxed attempt was submitted: 120 minutes of overtime, lateness capped
C39_Witness ==
  /\ pc = "awaitRelaxed"
  /\ submitted = relaxedInput
  /\ submitted.options.constraint.max_vehicle_overtime = 120 * 60
  /\ submitted.options.constraint.max_visit_lateness = LatenessCap

(* ====================== claims C36, C40 (AnalyzerSpec) ================== *)

\* the vehicles of the routes the checker reported under kind
Reported(kind) ==
  { aCheck.result[kind][k].vehicleId : k \in 1..Len(aCheck.result[kind]) }

\* C36 as stated: for a solution with routes, the checker asked for the
\* minimum load t alone passes exactly when the analysis has no route below t
\* (compliance 100); a route is a violation iff load < t, a warning iff
\* t <= load < 1.1 t, never both.
C36_CheckerAgreesWithAnalysis ==
  ( /\ aCheck # Null
    /\ aAnalysis # Null
    /\ aCheck.constraints = [minLoadPerRoute |-> minLoad]
    /\ Len(aSolution.routes) >= 1 )
  => /\ aCheck.result.passed <=> (aCheck.result.violations = << >>)
     /\ aCheck.result.passed <=> (aAnalysis.routesBelowTarget = << >>)
     /\ aCheck.result.passed <=> FracEq(Rate, Frac(100, 1))
     /\ Reported("violations")
          = { i \in 1..Len(aSolution.routes) : Loads[i] < minLoad }
     /\ Reported("warnings")
          = { i \in 1..Len(aSolution.routes) :
                Loads[i] >= minLoad /\ 10 * Loads[i] < 11 * minLoad }
     /\ Reported("violations") \cap Reported("warnings") = { }

\* C40: a vehicle addition of the normal generator has 1 <= count <= 15 (it is
\* emitted only with a route below the target, so the load gap is at least 1);
\* the vehicle addition of the relaxed generator has 5 <= count <= 15; no
\* strategy adds zero vehicles.
C40_VehicleAdditionCountBounds ==
  /\ \A k \in 1..Len(aStrategies) :
       aStrategies[k].type = "vehicle_addition" =>
         /\ Len(aAnalysis.routesBelowTarget) >= 1
         /\ aAnalysis.summary.totalLoadGap >= 1
         /\ aStrategies[k].count >= 1
         /\ aStrategies[k].count <= MaxAddedVehicles
  /\ aRelaxed # << >> =>
       /\ Len(OfType(aRelaxed, "vehicle_addition")) = 1
       /\ OfType(aRelaxed, "vehicle_addition")[1].count >= 5
       /\ OfType(aRelaxed, "vehicle_addition")[1].count <= MaxAddedVehicles

\* the smallest additions for a solution with a route below the target: one
\* vehicle from the normal generator, six from the relaxed one
C40_Witness ==
  /\ aStrategies # << >>
  /\ aIndex % 3 = 0
  /\ aAnalysis.summary.totalLoadGap < referenceCapacity
  /\ Len(OfType(aStrategies, "vehicle_addition")) = 1
  /\ OfType(aStrategies, "vehicle_addition")[1].count = 1
  /\ aRelaxed # << >>
  /\ OfType(aRelaxed, "vehicle_addition")[1].count = 6

(* ===================== claims C32 .. C34 (ClientSpec) =================== *)

\* C32 as stated: once a status poll has shown that the Oracle reports
\* failure or cancellation for the job, whatever the message, the wait is
\* over: the client is not left polling that job.
C32_FailureReportEndsPolling ==
  ( /\ lastPoll # Null
    /\ lastPoll.ok
    /\ lastPoll.status \in { "Error", "Failed", "Cancelled" } )
  => clientPc = "done"

\* C33 as stated: once an iteration has reported 100 % compliance, no request
\* of a later iteration is sent to the Oracle.
C33_NoIterationAfterFullCompliance ==
  \A k \in 1..Len(results) :
     results[k].compliance = 100 =>
       \A c \in 1..Len(oracleCalls) :
          oracleCalls[c].iteration <= results[k].iteration

\* C34 as stated: from the second iteration on, the instance and parameters
\* submitted are derived from the outcome of the iteration before, they are
\* not what the uploaded input, the user's parameters and the iteration
\* number give on their own.
C34_PayloadBuildsOnPreviousResult ==
  ( /\ clientPc = "submit"
    /\ clientIteration >= 2
    /\ Len(results) = clientIteration - 1 )
  => requestPayload
       # buildRequestPayload(UploadedInput,
                             applyIterativeRefinement(params, clientIteration),
                             clientIteration)

(* ======================= claim C31 (FairWaitSpec) ======================= *)

\* the wait is over
WaitEnded == waitPc \in { "returned", "threw" }

\* the polling loop always terminates
WaitTerminates == <> WaitEnded

\* C31 as stated: a 'processing' status is never treated as a failure (the
\* wait goes on, or ends by the timeout alone); successive polls are
\* checkInterval apart (counted from the answer); the wait returns exactly
\* when a poll reports completion; a wait no poll of which reported
\* completion, failure or cancellation ends with the timeout error, once the
\* bound has elapsed; and the loop terminates.
C31_ProcessingToleratedUntilTimeout ==
  /\ [] ( ( statusResponse # Null /\ statusResponse.success
             /\ statusResponse.status = "processing" )
          => ( waitPc = "polling" \/ waitError = "Optimization timeout" ) )
  /\ [] ( waitPc = "returned"
          <=> ( statusResponse # Null /\ statusResponse.success
                /\ statusResponse.status = "completed" ) )
  /\ [][ waitPollCount' = waitPollCount + 1 /\ waitPollCount >= 1
          => waitNow = lastStatusCheck + waitLatency + checkInterval ]_vars
  /\ [] ( ( waitPc = "threw"
             /\ ~ ( statusResponse # Null /\ statusResponse.success
                    /\ statusResponse.status \in { "failed", "cancelled" } ) )
          => ( /\ waitError = "Optimization timeout"
               /\ waitNow - waitStart >= maxWaitTime ) )
  /\ WaitTerminates

====
